---- MODULE Spec2Model ----
(***************************************************************************)
(* Plan / Execute / Critique core of the Polytope executive agent.         *)
(*                                                                         *)
(*   - the two DAG builders: ExecutiveOrchestrator._validate_and_build_dag *)
(*     (backend/orchestrator.py) and Planner._build_and_validate_dag       *)
(*     (backend/engine/planner.py);                                        *)
(*   - Executor.execute_dag / _run_task (backend/engine/executor.py), with *)
(*     several calls in progress on one Executor sharing its semaphore;    *)
(*   - ExecutiveOrchestrator.execute_objective and its sequential          *)
(*     _execute_dag (backend/orchestrator.py);                             *)
(*   - the invocation of one task: Executor._run_task with the retried     *)
(*     _execute_adapter, and the handler dispatch of _execute_dag.         *)
(*   - a builder called twice on one step list, and execute_dag called on  *)
(*     a graph that an earlier execution left partly terminal.             *)
(*                                                                         *)
(* A Python dict is modelled as a sequence of entries in insertion order,  *)
(* because the code iterates dicts and the iteration order decides what it *)
(* does.  The variable `entry` records which entry point a behaviour       *)
(* exercises; the variables of the other entry points keep their initial   *)
(* value.                                                                  *)
(***************************************************************************)
EXTENDS Naturals, Integers, Sequences, FiniteSets, TLC

VARIABLES
    entry,          \* "build" | "rebuild" | "executor" | "control" | "dag" | "invoke":
                    \* the entry point
    \* ---- builder harness
    steps,          \* the step list given to the builder
    builder,        \* "none" | "orchestrator" | "planner": which builder ran
    built,          \* the builder's outcome (BuildResult)
    rebuilt,        \* the outcome of a second call of the builder on the same list
    \* ---- Executor (engine/executor.py), one entry per execute_dag call
    max_concurrent, \* Executor.__init__'s max_concurrent
    semaphore,      \* free slots of self.semaphore
    tasks,          \* call -> the task dict handed to execute_dag
    completed_ids,  \* call -> local set completed_ids
    failed_ids,     \* call -> local set failed_ids
    executable,     \* call -> ids launched in the current wave
    coro,           \* call -> id -> position of _run_task's coroutine
    xpc,            \* call -> "idle" | "wave" | "done"
    invoked,        \* call -> ids whose action handler has been invoked
    startedBad,     \* call -> ids that entered Running with a dependency not Completed
    launched,       \* history: call -> id -> number of the wave (turn of the while
                    \* loop) that last launched the id's _run_task, 0 if none did
    at_entry,       \* history: call -> the task dict as it was when execute_dag was
                    \* last called on it, and the number of calls made on it
    args,           \* call -> id -> the task's args (a mapping from keys to values)
    \* ---- control loop (orchestrator.py)
    opc,            \* position of execute_objective
    current_steps,  \* execute_objective's current_steps
    otasks,         \* execute_objective's tasks (the current graph)
    oargs,          \* id -> the args of the task of that id in the current graph
    attempt,        \* index of the for loop over MAX_AUTONOMY_RETRIES
    pending_ids,    \* _execute_dag's pending_ids
    ocompleted_ids, \* _execute_dag's completed_ids
    iterations,     \* _execute_dag's iterations
    oexecutable,    \* _execute_dag's executable ids not yet run in this iteration
    progress_made,  \* _execute_dag's progress_made
    running_id,     \* id of the task whose handler is awaited ("" if none)
    oinvoked,       \* ids whose handler was invoked in the current _execute_dag
    ostartedBad,    \* ids that entered Running with a dependency not Completed
    critic_score,   \* execute_objective's critic_score (in hundredths)
    outcome,        \* the dict execute_objective returned
    handed,         \* number of graphs handed to _execute_dag in this Run
    autonomy,       \* execute_objective's autonomy argument
    refine_args,    \* history: the failed_tasks argument of the last refine_plan call
    final_output,   \* execute_objective's final_output: the "result" of the dict it
                    \* returns (the empty list stands for the initial "")
    is_throttled,   \* AffectiveEngine.current_state["is_throttled"]
    calls,          \* history: calls made in this Run (planner, refiner, builder, critic)
    replies,        \* history: what the planner and the critic last answered
    \* ---- one task invocation (executor.py _run_task, orchestrator.py _execute_dag)
    invocation,     \* the task, the position of its coroutine and what was called
    \* ---- the pass decision (engine/critic.py, orchestrator.py execute_objective)
    critic          \* the two thresholds, the critique judged and the two decisions

vars == <<entry, steps, builder, built, rebuilt,
          max_concurrent, semaphore, tasks, completed_ids, failed_ids,
          executable, coro, xpc, invoked, startedBad, launched, at_entry, args,
          opc, current_steps, otasks, oargs, attempt, pending_ids, ocompleted_ids,
          iterations, oexecutable, progress_made, running_id, oinvoked,
          ostartedBad, critic_score, outcome, handed, autonomy, final_output, refine_args, is_throttled, calls, replies,
          invocation, critic>>

buildVars == <<steps, builder, built, rebuilt>>
execVars == <<max_concurrent, semaphore, tasks, completed_ids, failed_ids,
              executable, coro, xpc, invoked, startedBad, launched, at_entry, args>>
loopVars == <<opc, current_steps, otasks, oargs, attempt, pending_ids, ocompleted_ids,
              iterations, oexecutable, progress_made, running_id, oinvoked,
              ostartedBad, critic_score, outcome, handed, autonomy, final_output, refine_args, is_throttled, calls, replies>>

----------------------------------------------------------------------------
(* Bounds of the model *)

\* longest step list given to a builder in the builder harness
MaxSteps == 3
\* most dependency entries in a step list given to a builder, over all its steps
MaxEdges == 3
\* total number of tasks over the execute_dag calls in progress
MaxTasks == 3
\* largest max_concurrent an Executor is constructed with
MaxConcurrent == 2
\* longest step list the planner returns in the control loop
MaxPlanSteps == 2
\* most dependency entries in a step list the planner returns
MaxPlanEdges == 2
\* calls of execute_dag on one task dict
MaxCalls == 2

\* ids a step may carry; "" stands for a missing or empty 'id' (both are falsy)
StepIds == {"a", "b", "c"}
NoId == ""
PlanIds == {"a", "b"}

----------------------------------------------------------------------------
(* Sequences and dicts *)

Range(s) == {s[i] : i \in 1..Len(s)}

SeqsUpTo(S, n) == UNION {[1..k -> S] : k \in 0..n}

\* duplicate-free lists over S of length at most n
ListsNoDup(S, n) == {s \in SeqsUpTo(S, n) : \A i, j \in 1..Len(s) : i # j => s[i] # s[j]}

Keys(d) == {d[i].id : i \in 1..Len(d)}

IndexOf(d, k) == CHOOSE i \in 1..Len(d) : d[i].id = k

Get(d, k) == d[IndexOf(d, k)]

\* first position of x in the list s (list.index)
ListIndex(s, x) == CHOOSE i \in 1..Len(s) : s[i] = x /\ \A j \in 1..(i - 1) : s[j] # x

TaskStatus == {"pending", "running", "completed", "failed"}

\* DAGTask(id=..., action=..., dependencies=...) with the model's defaults
DAGTask(id, action, deps) ==
    [id |-> id, action |-> action, dependencies |-> deps,
     status |-> "pending", result |-> "None"]

NoGraph == <<>>

BuildOk(d) == [ok |-> TRUE, tasks |-> d, error |-> "none", subject |-> "", path |-> <<>>]

BuildError(kind, subject, path) ==
    [ok |-> FALSE, tasks |-> NoGraph, error |-> kind, subject |-> subject, path |-> path]

NotBuilt == [ok |-> FALSE, tasks |-> NoGraph, error |-> "not_run", subject |-> "", path |-> <<>>]

----------------------------------------------------------------------------
(* The builders *)

\* a step without the key 'tool'
NoTool == ""

\* the tool the planner names in the step of each id.  The builders copy the
\* tool; they never compare tools, so one tool per id loses none of their cases
ToolOf(id) ==
    CASE id = "a" -> "web_search"
      [] id = "c" -> "send_email"
      [] OTHER -> NoTool

Step(id, deps) == [id |-> id, dependencies |-> deps, tool |-> ToolOf(id)]

\* `step.get('tool', 'unknown')`
action_of(step) == IF step.tool = NoTool THEN "unknown" ELSE step.tool

\* parse_steps with the dependencies of the step left out of the task
RECURSIVE parse_steps_without_dependencies(_, _, _)
parse_steps_without_dependencies(ss, i, d) ==
    IF i > Len(ss) THEN BuildOk(d)
    ELSE LET t_id == ss[i].id IN
         IF t_id = NoId THEN BuildError("missing_id", t_id, <<>>)
         ELSE IF t_id \in Keys(d) THEN BuildError("duplicate_id", t_id, <<>>)
         ELSE parse_steps_without_dependencies(ss, i + 1, Append(d, DAGTask(t_id, action_of(ss[i]), <<>>)))

\* parse_steps without the test `t_id in tasks`
RECURSIVE parse_steps_accepting_duplicates(_, _, _)
parse_steps_accepting_duplicates(ss, i, d) ==
    IF i > Len(ss) THEN BuildOk(d)
    ELSE LET t_id == ss[i].id IN
         IF t_id = NoId THEN BuildError("missing_id", t_id, <<>>)
         ELSE parse_steps_accepting_duplicates(ss, i + 1,
                                               Append(d, DAGTask(t_id, action_of(ss[i]),
                                                                 ss[i].dependencies)))

\* stage 1 of ExecutiveOrchestrator._validate_and_build_dag: parse the steps in
\* order; a falsy id and an id already in the dict each raise ValueError
RECURSIVE parse_steps(_, _, _)
parse_steps(ss, i, d) ==
    IF i > Len(ss) THEN BuildOk(d)
    ELSE LET t_id == ss[i].id IN
         IF t_id = NoId THEN BuildError("missing_id", t_id, <<>>)
         ELSE IF t_id \in Keys(d) THEN BuildError("duplicate_id", t_id, <<>>)
         ELSE parse_steps(ss, i + 1,
                          Append(d, DAGTask(t_id, action_of(ss[i]), ss[i].dependencies)))

\* stage 2 of both builders: for every task in dict order and every dependency in
\* list order, dep == t_id raises first, then dep not in tasks
RECURSIVE verify_dependencies(_, _, _)
verify_dependencies(d, i, j) ==
    IF i > Len(d) THEN BuildOk(d)
    ELSE IF j > Len(d[i].dependencies) THEN verify_dependencies(d, i + 1, 1)
    ELSE LET dep == d[i].dependencies[j] IN
         IF dep = d[i].id THEN BuildError("self_dependency", d[i].id, <<>>)
         ELSE IF dep \notin Keys(d) THEN BuildError("missing_dependency", d[i].id, <<>>)
         ELSE verify_dependencies(d, i, j + 1)

NoCycle(visited) == [cycle |-> FALSE, visited |-> visited, path |-> <<>>]

\* dfs of ExecutiveOrchestrator._detect_cycles.  path_stack and path_set are the
\* values at the call; the pop/remove at the end of dfs restore the caller's.
\* A raise is the result with cycle = TRUE, carrying the path of the message.
RECURSIVE dfs(_, _, _, _, _), dfs_deps(_, _, _, _, _, _)
dfs(d, current_id, visited, path_stack, path_set) ==
    dfs_deps(d, Get(d, current_id).dependencies, 1,
             visited \cup {current_id},
             Append(path_stack, current_id),
             path_set \cup {current_id})

dfs_deps(d, deps, j, visited, path_stack, path_set) ==
    IF j > Len(deps) THEN NoCycle(visited)
    ELSE LET dep_id == deps[j] IN
         IF dep_id \notin visited
         THEN LET r == dfs(d, dep_id, visited, path_stack, path_set) IN
              IF r.cycle THEN r
              ELSE dfs_deps(d, deps, j + 1, r.visited, path_stack, path_set)
         ELSE IF dep_id \in path_set
         THEN [cycle |-> TRUE, visited |-> visited,
               path |-> Append(SubSeq(path_stack, ListIndex(path_stack, dep_id),
                                      Len(path_stack)), dep_id)]
         ELSE dfs_deps(d, deps, j + 1, visited, path_stack, path_set)

\* the loop `for t_id in tasks: if t_id not in visited: dfs(t_id)`
RECURSIVE detect_cycles_from(_, _, _)
detect_cycles_from(d, i, visited) ==
    IF i > Len(d) THEN NoCycle(visited)
    ELSE IF d[i].id \in visited THEN detect_cycles_from(d, i + 1, visited)
    ELSE LET r == dfs(d, d[i].id, visited, <<>>, {}) IN
         IF r.cycle THEN r ELSE detect_cycles_from(d, i + 1, r.visited)

\* _detect_cycles that finds nothing
detect_cycles_skipped(d) == NoCycle({})

detect_cycles(d) == detect_cycles_from(d, 1, {})

\* ExecutiveOrchestrator._validate_and_build_dag
validate_and_build_dag(ss) ==
    LET p == parse_steps(ss, 1, <<>>) IN
    IF ~p.ok THEN p
    ELSE LET v == verify_dependencies(p.tasks, 1, 1) IN
         IF ~v.ok THEN v
         ELSE LET c == detect_cycles(p.tasks) IN
              IF c.cycle THEN BuildError("cycle", "", c.path)
              ELSE BuildOk(p.tasks)

\* stage 1 of Planner._build_and_validate_dag: a step with a falsy id is skipped
\* (`continue`), and tasks[t_id] = ... replaces an entry with the same id, which
\* keeps its position in the dict
RECURSIVE instantiate(_, _, _)
instantiate(ss, i, d) ==
    IF i > Len(ss) THEN d
    ELSE LET t_id == ss[i].id
             t == DAGTask(t_id, action_of(ss[i]), ss[i].dependencies) IN
         IF t_id = NoId THEN instantiate(ss, i + 1, d)
         ELSE IF t_id \in Keys(d)
         THEN instantiate(ss, i + 1, [d EXCEPT ![IndexOf(d, t_id)] = t])
         ELSE instantiate(ss, i + 1, Append(d, t))

\* dfs of Planner._detect_cycles: returns True on a back edge, no path is kept
RECURSIVE planner_dfs(_, _, _, _), planner_dfs_deps(_, _, _, _, _)
planner_dfs(d, node, visited, stack) ==
    planner_dfs_deps(d, Get(d, node).dependencies, 1,
                     visited \cup {node}, stack \cup {node})

planner_dfs_deps(d, deps, j, visited, stack) ==
    IF j > Len(deps) THEN NoCycle(visited)
    ELSE LET neighbor == deps[j] IN
         IF neighbor \notin visited
         THEN LET r == planner_dfs(d, neighbor, visited, stack) IN
              IF r.cycle THEN r
              ELSE planner_dfs_deps(d, deps, j + 1, r.visited, stack)
         ELSE IF neighbor \in stack
         THEN [cycle |-> TRUE, visited |-> visited, path |-> <<>>]
         ELSE planner_dfs_deps(d, deps, j + 1, visited, stack)

RECURSIVE planner_detect_cycles_from(_, _, _)
planner_detect_cycles_from(d, i, visited) ==
    IF i > Len(d) THEN NoCycle(visited)
    ELSE IF d[i].id \in visited THEN planner_detect_cycles_from(d, i + 1, visited)
    ELSE LET r == planner_dfs(d, d[i].id, visited, {}) IN
         IF r.cycle THEN r ELSE planner_detect_cycles_from(d, i + 1, r.visited)

planner_detect_cycles(d) == planner_detect_cycles_from(d, 1, {})

\* Planner._build_and_validate_dag
build_and_validate_dag(ss) ==
    LET d == instantiate(ss, 1, <<>>)
        v == verify_dependencies(d, 1, 1) IN
    IF ~v.ok THEN v
    ELSE LET c == planner_detect_cycles(d) IN
         IF c.cycle THEN BuildError("cycle", "", c.path)
         ELSE BuildOk(d)

----------------------------------------------------------------------------
(* What a step list is, independently of the builders *)

\* total number of dependency entries of the lists dl[1..n]
RECURSIVE TotalLen(_, _)
TotalLen(dl, n) == IF n = 0 THEN 0 ELSE Len(dl[n]) + TotalLen(dl, n - 1)

\* the id of each of n steps: an id of ids, or none
IdChoices(ids, n) == [1..n -> ids \cup {NoId}]

\* the dependency list of each of n steps: duplicate-free lists over ids with at
\* most e entries in all
DepChoices(ids, n, e) ==
    {dl \in [1..n -> ListsNoDup(ids, e)] : TotalLen(dl, n) <= e}

MakeSteps(il, dl) == [i \in DOMAIN il |-> Step(il[i], dl[i])]

\* step lists of at most n steps with at most e dependency entries in all
StepListsOver(ids, n, e) ==
    UNION {{MakeSteps(il, dl) : il \in IdChoices(ids, k), dl \in DepChoices(ids, k, e)} :
           k \in 0..n}

PlanLists == StepListsOver(PlanIds, MaxPlanSteps, MaxPlanEdges)

StepIdSet(ss) == {ss[i].id : i \in 1..Len(ss)}

AllIdsPresent(ss) == \A i \in 1..Len(ss) : ss[i].id # NoId

IdsUnique(ss) == \A i, j \in 1..Len(ss) : i # j => ss[i].id # ss[j].id

\* two steps carry the same (non-empty) id
HasDuplicateId(ss) ==
    \E i, j \in 1..Len(ss) : i # j /\ ss[i].id = ss[j].id /\ ss[i].id # NoId

HasSelfDependency(ss) == \E i \in 1..Len(ss) : ss[i].id \in Range(ss[i].dependencies)

HasAbsentDependency(ss) ==
    \E i \in 1..Len(ss) : \E dep \in Range(ss[i].dependencies) : dep \notin StepIdSet(ss)

\* x lists y as a dependency in the step list
DependsOn(ss, x, y) == \E i \in 1..Len(ss) : ss[i].id = x /\ y \in Range(ss[i].dependencies)

\* ids reachable from x along one or more dependency edges
RECURSIVE ReachFrom(_, _, _)
ReachFrom(ss, frontier, seen) ==
    LET next == {y \in StepIdSet(ss) \cup UNION {Range(ss[i].dependencies) : i \in 1..Len(ss)} :
                    \E x \in frontier : DependsOn(ss, x, y)} \ seen IN
    IF next = {} THEN seen ELSE ReachFrom(ss, next, seen \cup next)

HasCycle(ss) == \E x \in StepIdSet(ss) : x \in ReachFrom(ss, {x}, {})

\* a step list every validation rule accepts
ValidSteps(ss) ==
    /\ AllIdsPresent(ss)
    /\ IdsUnique(ss)
    /\ ~HasSelfDependency(ss)
    /\ ~HasAbsentDependency(ss)
    /\ ~HasCycle(ss)

\* the validation rules of a step list, by number, that the list violates
ViolatedRules(ss) ==
    {r \in 1..5 : CASE r = 1 -> ~AllIdsPresent(ss)
                    [] r = 2 -> HasDuplicateId(ss)
                    [] r = 3 -> HasSelfDependency(ss)
                    [] r = 4 -> HasAbsentDependency(ss)
                    [] r = 5 -> HasCycle(ss)}

\* p starts and ends with the same id and each id lists the next as a dependency
IsCyclePath(ss, p) ==
    /\ Len(p) >= 2
    /\ p[1] = p[Len(p)]
    /\ \A k \in 1..(Len(p) - 1) : DependsOn(ss, p[k], p[k + 1])

----------------------------------------------------------------------------
(* Executor (engine/executor.py) *)

\* the execute_dag calls that may be in progress on the one Executor
Calls == {"call1", "call2"}

\* ids of a graph handed to the Executor, by position in the dict.  The Executor
\* only compares ids, so naming the k-th key TaskNames[k] loses no graph.
TaskNames == <<"a", "b", "c", "d", "e">>

\* the set S of positions as a list of ids, in dict order (all() and any() over a
\* dependency list do not depend on its order)
RECURSIVE NamesOf(_, _)
NamesOf(S, k) ==
    IF k > Len(TaskNames) THEN <<>>
    ELSE IF k \in S THEN <<TaskNames[k]>> \o NamesOf(S, k + 1)
    ELSE NamesOf(S, k + 1)

\* positions reachable from position x along dependency edges of dep
RECURSIVE PosReach(_, _, _)
PosReach(dep, frontier, seen) ==
    LET next == UNION {dep[x] : x \in frontier} \ seen IN
    IF next = {} THEN seen ELSE PosReach(dep, next, seen \cup next)

\* every acyclic, referentially closed graph of n pending tasks, in every dict order
GraphsOfSize(n) ==
    {[k \in 1..n |-> DAGTask(TaskNames[k], action_of(Step(TaskNames[k], <<>>)),
                              NamesOf(dep[k], 1))] :
        dep \in {f \in [1..n -> SUBSET (1..n)] : \A x \in 1..n : x \notin PosReach(f, {x}, {})}}

Graphs == UNION {GraphsOfSize(n) : n \in 0..MaxTasks}

Terminal(t) == t.status \in {"completed", "failed"}

\* the task t as an earlier execution left it: untouched, Completed with its
\* result, or Failed with its error
LeftAs(t, status) ==
    CASE status = "completed" -> [t EXCEPT !.status = "completed", !.result = "str(result)"]
      [] status = "failed" -> [t EXCEPT !.status = "failed", !.result = "str(e)"]
      [] OTHER -> t

\* the graphs an interrupted execution can hand back to execute_dag: a Completed
\* task has only Completed dependencies, and so has a task that ran and Failed
ResumedGraphs ==
    UNION {{[k \in 1..Len(g) |-> LeftAs(g[k], st[k])] :
               st \in {f \in [1..Len(g) -> {"pending", "completed", "failed"}] :
                          \A k \in 1..Len(g) :
                              f[k] # "pending" =>
                                  \A j \in 1..Len(g) :
                                      g[j].id \in Range(g[k].dependencies) =>
                                          f[j] = "completed"}} :
           g \in Graphs}

\* a pass that launches one task per turn: the first Pending task whose
\* dependencies are completed
scan_launching_one(d, i, completed, failed, exe, pending_count) ==
    LET ready == SelectSeq(d, LAMBDA t : /\ t.status = "pending"
                                         /\ \A dep \in Range(t.dependencies) : dep \in completed)
    IN [tasks |-> d, failed_ids |-> failed,
        executable |-> IF ready = <<>> THEN <<>> ELSE <<ready[1].id>>,
        pending_count |-> Len(SelectSeq(d, LAMBDA t : ~Terminal(t)))]

\* a pass that does not look at the status of a task: every task whose
\* dependencies are completed is launched
scan_relaunching_terminal(d, i, completed, failed, exe, pending_count) ==
    LET ready == SelectSeq(d, LAMBDA t : \A dep \in Range(t.dependencies) : dep \in completed)
    IN [tasks |-> d, failed_ids |-> failed,
        executable |-> [k \in 1..Len(ready) |-> ready[k].id],
        pending_count |-> Len(d)]

\* one pass of the `for t_id, task in tasks.items()` loop of execute_dag, from
\* position i: fail-fast propagation (failed_ids grows inside the pass), the
\* executable list and pending_count
RECURSIVE scan(_, _, _, _, _, _)
scan(d, i, completed, failed, exe, pending_count) ==
    IF i > Len(d)
    THEN [tasks |-> d, failed_ids |-> failed, executable |-> exe,
          pending_count |-> pending_count]
    ELSE LET task == d[i] IN
         IF Terminal(task) THEN scan(d, i + 1, completed, failed, exe, pending_count)
         ELSE LET deps_met == \A dep \in Range(task.dependencies) : dep \in completed
                  deps_failed == \E dep \in Range(task.dependencies) : dep \in failed
              IN IF deps_failed
                 THEN scan([d EXCEPT ![i].status = "failed",
                                     ![i].result = "Upstream dependency failed."],
                           i + 1, completed, failed \cup {task.id}, exe,
                           pending_count + 1)
                 ELSE IF deps_met /\ task.status = "pending"
                 THEN scan(d, i + 1, completed, failed, Append(exe, task.id),
                           pending_count + 1)
                 ELSE scan(d, i + 1, completed, failed, exe, pending_count + 1)

\* a loop that is left before anything is launched
loop_breaks_before_launch(exe, pending_count) == TRUE

\* the two `break`s of the while loop
loop_breaks(exe, pending_count) ==
    \/ (exe = <<>> /\ pending_count > 0)
    \/ pending_count = 0

\* the args both builders give a task: the step's description and the objective
built_args == [description |-> "description", context |-> "objective"]

\* task.args[key] = value: the key is added or overwritten, the others are kept
set_key(a, key, value) == (key :> value) @@ a

\* _run_task's dep_context: the result of each dependency whose status is Completed
dep_context(d, k) ==
    [dep \in {x \in Range(Get(d, k).dependencies) : Get(d, x).status = "completed"} |->
        Get(d, dep).result]

\* _execute_dag's dep_results: the result of each dependency
dep_results(d, k) ==
    [dep \in Range(Get(d, k).dependencies) |-> Get(d, dep).result]

\* the key _run_task stores the context under
DependencyOutput == "dependency_output"

\* the key _execute_dag stores the context under
DependencyData == "dependency_data"

\* the args of the tasks of a dict handed to execute_dag: as built for a task that
\* never ran, with the context of its run for a task that an earlier call ran
args_at_entry(d) ==
    [k \in Keys(d) |->
        IF Terminal(Get(d, k))
        THEN set_key(built_args, DependencyOutput, dep_context(d, k))
        ELSE built_args]

\* the number of waves launched so far, from the history l of a call
WaveNo(l) ==
    IF DOMAIN l = {} THEN 0
    ELSE CHOOSE n \in {l[k] : k \in DOMAIN l} : \A k \in DOMAIN l : l[k] <= n

\* one turn of `while True` up to the gather: the scan, then either a break
\* (execute_dag returns) or the launch of one _run_task coroutine per executable id
wave(c, d, completed, failed) ==
    LET s == scan(d, 1, completed, failed, <<>>, 0) IN
    /\ tasks' = [tasks EXCEPT ![c] = s.tasks]
    /\ completed_ids' = [completed_ids EXCEPT ![c] = completed]
    /\ failed_ids' = [failed_ids EXCEPT ![c] = s.failed_ids]
    /\ IF loop_breaks(s.executable, s.pending_count)
       THEN /\ xpc' = [xpc EXCEPT ![c] = "done"]
            /\ executable' = [executable EXCEPT ![c] = {}]
            /\ coro' = [coro EXCEPT ![c] = [k \in Keys(d) |-> "none"]]
            /\ launched' = launched
       ELSE /\ xpc' = [xpc EXCEPT ![c] = "wave"]
            /\ executable' = [executable EXCEPT ![c] = Range(s.executable)]
            /\ launched' = [launched EXCEPT ![c] =
                              [k \in Keys(d) |-> IF k \in Range(s.executable)
                                                 THEN WaveNo(launched[c]) + 1
                                                 ELSE launched[c][k]]]
            /\ coro' = [coro EXCEPT ![c] =
                          [k \in Keys(d) |-> IF k \in Range(s.executable)
                                             THEN "waiting" ELSE "none"]]

\* execute_dag is called: completed_ids is seeded, failed_ids is empty, first turn
ExecuteDag(c) ==
    /\ entry = "executor"
    /\ xpc[c] = "idle"
    /\ wave(c, tasks[c], {t.id : t \in {x \in Range(tasks[c]) : x.status = "completed"}}, {})
    /\ UNCHANGED <<max_concurrent, args, semaphore, invoked, startedBad>>
    /\ UNCHANGED <<entry, critic, invocation, at_entry, buildVars, loopVars>>

\* execute_dag is called again on the dict of a call that has returned: the same
\* seeding and first turn, on the tasks as the earlier call left them
ExecuteDagAgain(c) ==
    /\ entry = "executor"
    /\ xpc[c] = "done"
    /\ at_entry[c].calls < MaxCalls
    /\ at_entry' = [at_entry EXCEPT ![c] = [tasks |-> tasks[c], calls |-> @.calls + 1]]
    /\ invoked' = [invoked EXCEPT ![c] = {}]
    /\ wave(c, tasks[c], {t.id : t \in {x \in Range(tasks[c]) : x.status = "completed"}}, {})
    /\ UNCHANGED <<max_concurrent, args, semaphore, startedBad>>
    /\ UNCHANGED <<entry, critic, invocation, buildVars, loopVars>>

\* a semaphore that never blocks
may_acquire_unbounded(sem) == TRUE

\* `async with self.semaphore` may be entered
may_acquire(sem) == sem > 0

\* _run_task enters the semaphore: status Running, context injected, and the action
\* is invoked under wait_for (the coroutine then awaits the result)
Acquire(c, k) ==
    /\ entry = "executor"
    /\ xpc[c] = "wave"
    /\ k \in executable[c]
    /\ coro[c][k] = "waiting"
    /\ may_acquire(semaphore)
    /\ semaphore' = semaphore - 1
    /\ tasks' = [tasks EXCEPT ![c][IndexOf(tasks[c], k)].status = "running"]
    /\ coro' = [coro EXCEPT ![c][k] = "invoking"]
    /\ invoked' = [invoked EXCEPT ![c] = @ \cup {k}]
    /\ startedBad' = [startedBad EXCEPT ![c] =
           IF \A dep \in Range(Get(tasks[c], k).dependencies) :
                 Get(tasks[c], dep).status = "completed"
           THEN @ ELSE @ \cup {k}]
    /\ args' = [args EXCEPT ![c][k] = set_key(@, DependencyOutput, dep_context(tasks[c], k))]
    /\ UNCHANGED <<max_concurrent, completed_ids, failed_ids, executable, xpc, launched>>
    /\ UNCHANGED <<entry, critic, invocation, at_entry, buildVars, loopVars>>

\* what the awaited wait_for(_execute_adapter(...)) ends with
Outcomes == {"success", "error", "timeout"}

status_after(out) == IF out = "success" THEN "completed" ELSE "failed"

result_after(out) ==
    CASE out = "success" -> "str(result)"
      [] out = "timeout" -> "Task exceeded limit."
      [] OTHER -> "str(e)"

\* the rest of _run_task: result and status are set, the semaphore is left, the
\* task is returned to gather
Finish(c, k, out) ==
    /\ entry = "executor"
    /\ xpc[c] = "wave"
    /\ coro[c][k] = "invoking"
    /\ tasks' = [tasks EXCEPT ![c][IndexOf(tasks[c], k)].status = status_after(out),
                              ![c][IndexOf(tasks[c], k)].result = result_after(out)]
    /\ semaphore' = semaphore + 1
    /\ coro' = [coro EXCEPT ![c][k] = "returned"]
    /\ UNCHANGED <<max_concurrent, args, completed_ids, failed_ids, executable, xpc,
                   invoked, startedBad, launched>>
    /\ UNCHANGED <<entry, critic, invocation, at_entry, buildVars, loopVars>>

\* a gather that returns with the first coroutine that has returned
gather_returns_on_first(exe, co) == \E k \in exe : co[k] = "returned"

\* `await asyncio.gather(*futures, return_exceptions=True)` returns
gather_returns(exe, co) == \A k \in exe : co[k] = "returned"

\* gather returns when every coroutine of the wave has returned: the results are
\* sorted into completed_ids and failed_ids, and the next turn of the loop runs
Gather(c) ==
    /\ entry = "executor"
    /\ xpc[c] = "wave"
    /\ gather_returns(executable[c], coro[c])
    /\ wave(c, tasks[c],
            completed_ids[c] \cup {k \in executable[c] : Get(tasks[c], k).status = "completed"},
            failed_ids[c] \cup {k \in executable[c] : Get(tasks[c], k).status # "completed"})
    /\ UNCHANGED <<max_concurrent, args, semaphore, invoked, startedBad>>
    /\ UNCHANGED <<entry, critic, invocation, at_entry, buildVars, loopVars>>

NextExec ==
    \/ \E c \in Calls : ExecuteDag(c)
    \/ \E c \in Calls : \E k \in Keys(tasks[c]) : Acquire(c, k)
    \/ \E c \in Calls : \E k \in Keys(tasks[c]) : \E out \in Outcomes : Finish(c, k, out)
    \/ \E c \in Calls : Gather(c)

----------------------------------------------------------------------------
(* Control loop: ExecutiveOrchestrator.execute_objective and _execute_dag *)

\* Settings.MAX_AUTONOMY_RETRIES
MAX_AUTONOMY_RETRIES == 3
\* Settings.CRITIC_THRESHOLD, in hundredths
CRITIC_THRESHOLD == 75

\* scores the critique may carry, in hundredths (50 is critique_result's own
\* fallback, 0 the default of criticism.get("score", 0.0))
Scores == {0, 50, 74, 75, 100}

Outcome(status, reason, attempts, score) ==
    [status |-> status, reason |-> reason, attempts |-> attempts, score |-> score]

\* no dict returned yet; -1 stands for a key the dict does not have
NoOutcome == Outcome("none", "", -1, -1)

\* the return after the for loop (exhausted attempts, or a break)
FailedOutcome(score) ==
    Outcome("failed", "Max retries exceeded or critic threshold not met.",
            MAX_AUTONOMY_RETRIES, score)

\* what the text-generation service answers to a planning or refinement prompt:
\* a step list, or the call raises
PlanReply(error, ss) == [error |-> error, steps |-> ss]

PlannerReplies == {PlanReply(FALSE, ss) : ss \in PlanLists} \cup {PlanReply(TRUE, <<>>)}

\* get_structured_plan / refine_plan followed by .get("steps", []): a call that
\* raised is answered {"steps": []}
plan_steps(r) == IF r.error THEN <<>> ELSE r.steps

\* what the service answers to the critique prompt: a score, or the call raises
CriticReply(error, score) == [error |-> error, score |-> score]

CriticReplies == {CriticReply(FALSE, s) : s \in Scores} \cup {CriticReply(TRUE, 0)}

\* critique_result followed by criticism.get("score", 0.0): the bare except of
\* critique_result answers {"score": 0.5, ...}
critique_score(r) == IF r.error THEN 50 ELSE r.score

\* the message of the ValueError of each validation error, as the failed dict
\* carries it (f"Invalid Execution Plan: {ve}")
validation_message(kind) ==
    CASE kind = "missing_id" -> "Invalid Execution Plan: Plan step missing 'id' field"
      [] kind = "duplicate_id" -> "Invalid Execution Plan: Duplicate Task ID detected"
      [] kind = "self_dependency" -> "Invalid Execution Plan: Self-dependency detected in task"
      [] kind = "missing_dependency" -> "Invalid Execution Plan: Task depends on non-existent task"
      [] kind = "cycle" -> "Invalid Execution Plan: Cycle detected in execution plan"

\* history of a Run: the calls made so far
NoCalls == [plan |-> 0, refine |-> 0, build |-> 0, critic |-> 0]

\* history of a Run: the planner's last answer (to "plan" or to "refine"),
\* classified by the rules it violates, and whether the critic's last call raised
PlanKind(call, r) ==
    [to |-> call,
     kind |-> IF r.error THEN "error"
              ELSE IF r.steps = <<>> THEN "empty"
              ELSE IF ViolatedRules(r.steps) = {} THEN "valid" ELSE "invalid",
     violated |-> IF r.error THEN {} ELSE ViolatedRules(r.steps)]

NoReplies == [plan |-> [to |-> "none", kind |-> "none", violated |-> {}],
              critic_error |-> FALSE]

\* the Run rows of an objective: execute_objective takes the objective text and
\* the autonomy level, constructs no Run and assigns no Run.status; the class
\* Run (with RunStatus) is instantiated nowhere
runs == {}

\* a gate that never halts
affective_gate_open(throttled, mode) == FALSE

\* `self.ace.should_throttle() and autonomy == "RESTRICTED"`
affective_gate(throttled, mode) == throttled /\ mode = "RESTRICTED"

\* the affective gate: halted without planning, or the planner is awaited
ExecuteObjective ==
    /\ entry = "control"
    /\ opc = "start"
    /\ IF affective_gate(is_throttled, autonomy)
       THEN /\ outcome' = Outcome("halted", "Biometric stress limit reached.", -1, -1)
            /\ opc' = "returned"
       ELSE /\ outcome' = outcome
            /\ opc' = "planning"
    /\ UNCHANGED <<current_steps, otasks, oargs, attempt, pending_ids, ocompleted_ids,
                   iterations, oexecutable, progress_made, running_id, oinvoked,
                   ostartedBad, critic_score, handed, autonomy, final_output, refine_args, is_throttled, calls, replies>>
    /\ UNCHANGED <<entry, critic, invocation, buildVars, execVars>>

\* a step list that is never taken for empty
no_steps_never(ss) == FALSE

\* `not current_steps`
no_steps(ss) == ss = <<>>

\* get_structured_plan returns ss (the empty list also when the call errored):
\* no steps and a ValueError of the builder each return a failed dict; otherwise
\* the for loop is entered with attempt = 0.  current_steps is a local: the model
\* keeps the last list that was built into a graph (a failed dict does not carry
\* the list, and the local is gone on return)
PlannerReturns(r) ==
    /\ entry = "control"
    /\ opc = "planning"
    /\ replies' = [replies EXCEPT !.plan = PlanKind("plan", r)]
    /\ LET ss == plan_steps(r)
           b == validate_and_build_dag(ss) IN
       IF no_steps(ss)
       THEN /\ outcome' = Outcome("failed", "Planner produced no actionable steps.", -1, -1)
            /\ opc' = "returned"
            /\ calls' = [calls EXCEPT !.plan = @ + 1]
            /\ UNCHANGED <<current_steps, otasks, oargs, attempt>>
       ELSE IF ~b.ok
       THEN /\ outcome' = Outcome("failed", validation_message(b.error), -1, -1)
            /\ opc' = "returned"
            /\ calls' = [calls EXCEPT !.plan = @ + 1, !.build = @ + 1]
            /\ UNCHANGED <<current_steps, otasks, oargs, attempt>>
       ELSE /\ current_steps' = ss
            /\ otasks' = b.tasks
            /\ oargs' = [k \in Keys(b.tasks) |-> built_args]
            /\ attempt' = 0
            /\ opc' = "execute"
            /\ calls' = [calls EXCEPT !.plan = @ + 1, !.build = @ + 1]
            /\ outcome' = outcome
    /\ UNCHANGED <<pending_ids, ocompleted_ids, iterations, oexecutable,
                   progress_made, running_id, oinvoked, ostartedBad, critic_score,
                   handed, autonomy, final_output, refine_args, is_throttled>>
    /\ UNCHANGED <<entry, critic, invocation, buildVars, execVars>>

\* `await self._execute_dag(tasks)`: the locals of _execute_dag
EnterExecuteDag ==
    /\ entry \in {"control", "dag"}
    /\ opc = "execute"
    /\ pending_ids' = Keys(otasks)
    /\ ocompleted_ids' = {}
    /\ iterations' = 0
    /\ oinvoked' = {}
    /\ handed' = handed + 1
    /\ opc' = "loop"
    /\ UNCHANGED <<current_steps, otasks, oargs, attempt, oexecutable, progress_made,
                   running_id, ostartedBad, critic_score, outcome, autonomy, final_output, refine_args,
                   is_throttled, calls, replies>>
    /\ UNCHANGED <<entry, critic, invocation, buildVars, execVars>>

\* readiness that looks at every task of the graph, pending or not
ready_ids_of_all(d, pending, completed) ==
    {k \in Keys(d) : \A dep \in Range(Get(d, k).dependencies) : dep \in completed}

\* readiness that only waits for the dependencies to leave pending_ids
ready_ids_not_pending(d, pending, completed) ==
    {k \in pending : \A dep \in Range(Get(d, k).dependencies) : dep \notin pending}

\* the pending ids whose dependencies are all in completed_ids
ready_ids(d, pending, completed) ==
    {k \in pending : \A dep \in Range(Get(d, k).dependencies) : dep \in completed}

\* one test of the while condition and the head of its body; when the loop ends
\* _execute_dag returns and critique_result is awaited
LoopTurn ==
    /\ entry \in {"control", "dag"}
    /\ opc = "loop"
    /\ IF pending_ids # {} /\ iterations < Len(otasks) * 2
       THEN /\ iterations' = iterations + 1
            /\ progress_made' = FALSE
            /\ LET exe == ready_ids(otasks, pending_ids, ocompleted_ids) IN
               IF exe = {}
               THEN /\ opc' = "critic"
                    /\ oexecutable' = {}
               ELSE /\ opc' = "batch"
                    /\ oexecutable' = exe
       ELSE /\ opc' = "critic"
            /\ UNCHANGED <<iterations, progress_made, oexecutable>>
    /\ UNCHANGED <<current_steps, otasks, oargs, attempt, pending_ids, ocompleted_ids,
                   running_id, oinvoked, ostartedBad, critic_score, outcome, handed,
                   autonomy, final_output, refine_args, is_throttled, calls, replies>>
    /\ UNCHANGED <<entry, critic, invocation, buildVars, execVars>>

\* the next id of `for t_id in executable` (the list follows the iteration order
\* of the set pending_ids, which is not fixed): status Running, handler awaited
StartTask(k) ==
    /\ entry \in {"control", "dag"}
    /\ opc = "batch"
    /\ running_id = ""
    /\ k \in oexecutable
    /\ otasks' = [otasks EXCEPT ![IndexOf(otasks, k)].status = "running"]
    /\ running_id' = k
    /\ oargs' = [oargs EXCEPT ![k] = set_key(@, DependencyData, dep_results(otasks, k))]
    /\ oinvoked' = oinvoked \cup {k}
    /\ ostartedBad' =
           IF \A dep \in Range(Get(otasks, k).dependencies) :
                 Get(otasks, dep).status = "completed"
           THEN ostartedBad ELSE ostartedBad \cup {k}
    /\ UNCHANGED <<opc, current_steps, attempt, pending_ids, ocompleted_ids,
                   iterations, oexecutable, progress_made, critic_score, outcome,
                   handed, autonomy, final_output, refine_args, is_throttled, calls, replies>>
    /\ UNCHANGED <<entry, critic, invocation, buildVars, execVars>>

\* what `await handler(task.args)` ends with (there is no timeout here)
HandlerOutcomes == {"success", "error"}

\* an id that stays in pending_ids after its handler has ended
pending_after_kept(pending, k) == pending

\* `pending_ids.remove(t_id)`, in the try and in the except branch
pending_after(pending, k) == pending \ {k}

\* the try/except around the handler
HandlerReturns(out) ==
    /\ entry \in {"control", "dag"}
    /\ opc = "batch"
    /\ running_id # ""
    /\ LET i == IndexOf(otasks, running_id) IN
       IF out = "success"
       THEN /\ otasks' = [otasks EXCEPT ![i].status = "completed", ![i].result = "result"]
            /\ ocompleted_ids' = ocompleted_ids \cup {running_id}
            /\ progress_made' = TRUE
       ELSE /\ otasks' = [otasks EXCEPT ![i].status = "failed",
                                        ![i].result = "Execution Error"]
            /\ UNCHANGED <<ocompleted_ids, progress_made>>
    /\ pending_ids' = pending_after(pending_ids, running_id)
    /\ oexecutable' = oexecutable \ {running_id}
    /\ running_id' = ""
    /\ UNCHANGED <<opc, oargs, current_steps, attempt, iterations, oinvoked, ostartedBad,
                   critic_score, outcome, handed, autonomy, final_output, refine_args, is_throttled, calls, replies>>
    /\ UNCHANGED <<entry, critic, invocation, buildVars, execVars>>

\* the end of the for loop over executable: `if not progress_made and pending_ids`
BatchEnd ==
    /\ entry \in {"control", "dag"}
    /\ opc = "batch"
    /\ running_id = ""
    /\ oexecutable = {}
    /\ opc' = IF ~progress_made /\ pending_ids # {} THEN "critic" ELSE "loop"
    /\ UNCHANGED <<current_steps, otasks, oargs, attempt, pending_ids, ocompleted_ids,
                   iterations, oexecutable, progress_made, running_id, oinvoked,
                   ostartedBad, critic_score, outcome, handed, autonomy, final_output, refine_args, is_throttled, calls, replies>>
    /\ UNCHANGED <<entry, critic, invocation, buildVars, execVars>>

failed_tasks(d) == {d[i].id : i \in {j \in 1..Len(d) : d[j].status = "failed"}}

\* success on the critic's score alone
is_success_by_score(d, score) == score >= CRITIC_THRESHOLD

\* `not failed_tasks and critic_score >= self.settings.CRITIC_THRESHOLD`
is_success(d, score) == failed_tasks(d) = {} /\ score >= CRITIC_THRESHOLD

\* refinement is requested after the last attempt too
attempts_remain_off_by_one(a) == a < MAX_AUTONOMY_RETRIES

\* `attempt < self.settings.MAX_AUTONOMY_RETRIES - 1`
attempts_remain(a) == a < MAX_AUTONOMY_RETRIES - 1

\* no refine_plan call was made yet
NoRefineArgs == [failed_tasks |-> <<>>]

\* the ids of the tasks that are not Completed
unfinished_task_ids(d) ==
    LET rest == SelectSeq(d, LAMBDA t : t.status # "completed")
    IN [i \in 1..Len(rest) |-> rest[i].id]

\* [t.id for t in failed_tasks]: the ids of the Failed tasks, in the order of the dict
failed_task_ids(d) ==
    LET failed == SelectSeq(d, LAMBDA t : t.status = "failed")
    IN [i \in 1..Len(failed) |-> failed[i].id]

\* a summary of the tasks that no other task depends on
result_map_of_sinks(d) ==
    LET sinks == SelectSeq(d, LAMBDA t : \A u \in Range(d) : t.id \notin Range(u.dependencies))
    IN [i \in 1..Len(sinks) |-> [key |-> sinks[i].id, value |-> sinks[i].result]]

\* result_map = {k: v.result for k, v in tasks.items()}: one entry per task, in
\* the order of the dict
result_map(d) == [i \in 1..Len(d) |-> [key |-> d[i].id, value |-> d[i].result]]

\* json.dumps(result_map, indent=2): the text lists the entries in the order of
\* the dict, each as "key": value
json_dumps(m) == [i \in 1..Len(m) |-> <<m[i].key, ":", m[i].value>>]

\* a count that reports the index of the for loop
attempts_of_index(a) == a

\* "attempts": attempt + 1 of the success dict
attempts_of(a) == a + 1

\* critique_result returns (its fallback answer when the call raised): success,
\* or refinement is requested, or the attempts are exhausted
CriticReturns(r) ==
    /\ entry = "control"
    /\ opc = "critic"
    /\ LET score == critique_score(r) IN
       /\ critic_score' = score
       /\ IF is_success(otasks, score)
          THEN /\ outcome' = Outcome("success", "", attempts_of(attempt), score)
               /\ opc' = "returned"
          ELSE IF attempts_remain(attempt)
          THEN /\ opc' = "refining"
               /\ outcome' = outcome
          ELSE /\ outcome' = FailedOutcome(score)
               /\ opc' = "returned"
       /\ refine_args' =
              IF ~is_success(otasks, score) /\ attempts_remain(attempt)
              THEN [failed_tasks |-> failed_task_ids(otasks)]
              ELSE refine_args
    /\ calls' = [calls EXCEPT !.critic = @ + 1]
    /\ final_output' = json_dumps(result_map(otasks))
    /\ replies' = [replies EXCEPT !.critic_error = r.error]
    /\ UNCHANGED <<current_steps, otasks, oargs, attempt, pending_ids, ocompleted_ids,
                   iterations, oexecutable, progress_made, running_id, oinvoked,
                   ostartedBad, handed, autonomy, is_throttled>>
    /\ UNCHANGED <<entry, critic, invocation, buildVars, execVars>>

\* a refinement that is abandoned only when the refined list is empty
refinement_aborts_on_empty_only(ss, b) == ss = <<>>

\* the two `break`s of the refinement: `not current_steps`, and an exception of
\* _validate_and_build_dag caught by `except Exception`
refinement_aborts(ss, b) == ss = <<>> \/ ~b.ok

\* a rebuilt graph whose tasks take over status and result of the old graph's
\* tasks of the same id
rebuilt_graph_carrying_over(old, b) ==
    [i \in 1..Len(b.tasks) |->
        IF b.tasks[i].id \in Keys(old)
        THEN [b.tasks[i] EXCEPT !.status = Get(old, b.tasks[i].id).status,
                                !.result = Get(old, b.tasks[i].id).result]
        ELSE b.tasks[i]]

\* `tasks = self._validate_and_build_dag(current_steps, objective)` in the
\* refinement: the name is rebound to the new dict, the old graph is dropped
rebuilt_graph(old, b) == b.tasks

\* refine_plan returns ss (the empty list also when the call errored): an empty
\* list and an exception of the builder each `break`; otherwise the next attempt
\* runs on the rebuilt graph
RefineReturns(r) ==
    /\ entry = "control"
    /\ opc = "refining"
    /\ replies' = [replies EXCEPT !.plan = PlanKind("refine", r)]
    /\ LET ss == plan_steps(r)
           b == validate_and_build_dag(ss) IN
       /\ calls' = [calls EXCEPT !.refine = @ + 1,
                                 !.build = IF ss = <<>> THEN @ ELSE @ + 1]
       /\ IF refinement_aborts(ss, b)
          THEN /\ outcome' = FailedOutcome(critic_score)
               /\ opc' = "returned"
               /\ UNCHANGED <<current_steps, otasks, oargs, attempt>>
          ELSE /\ current_steps' = ss
               /\ otasks' = rebuilt_graph(otasks, b)
               /\ oargs' = [k \in Keys(b.tasks) |-> built_args]
               /\ attempt' = attempt + 1
               /\ opc' = "execute"
               /\ outcome' = outcome
    /\ UNCHANGED <<pending_ids, ocompleted_ids, iterations, oexecutable,
                   progress_made, running_id, oinvoked, ostartedBad, critic_score,
                   handed, autonomy, final_output, refine_args, is_throttled>>
    /\ UNCHANGED <<entry, critic, invocation, buildVars, execVars>>

\* the steps of _execute_dag
NextDag ==
    \/ EnterExecuteDag
    \/ LoopTurn
    \/ \E k \in Keys(otasks) : StartTask(k)
    \/ \E out \in HandlerOutcomes : HandlerReturns(out)
    \/ BatchEnd

NextLoop ==
    \/ ExecuteObjective
    \/ \E r \in PlannerReplies : PlannerReturns(r)
    \/ NextDag
    \/ \E r \in CriticReplies : CriticReturns(r)
    \/ \E r \in PlannerReplies : RefineReturns(r)

----------------------------------------------------------------------------
(* One task invocation: Executor._run_task with _execute_adapter under tenacity's
   retry, and the body of `for t_id in executable` of _execute_dag *)

\* @retry(stop=stop_after_attempt(3), ..., reraise=True)
STOP_AFTER_ATTEMPT == 3

\* the names AdapterRegistry.get answers with an adapter (FileSystemAdapter under
\* its name and its three aliases)
ExecutorRegistered == {"write_file", "read_file", "list_files", "filesystem"}

\* the names _execute_adapter answers with a mock result when no adapter is found
MockActions == {"summarize", "analyze_data", "web_search"}

\* the keys of ExecutiveOrchestrator.tool_registry
ToolRegistry == {"web_search", "summarize", "analyze_data", "system_query"}

\* the tools of the registry that await a collaborator and may raise
RaisingTools == {"summarize", "system_query"}

\* action names a task may carry ("unknown" is the default of step.get('tool', 'unknown'))
Actions ==
    ExecutorRegistered \cup MockActions \cup ToolRegistry \cup {"unknown", "send_email"}

\* self.registry.get(action) is not None
registry_get(name) == name \in ExecutorRegistered

\* a task with this action about to be run, and nothing called yet.  raised
\* counts the exceptions that left _execute_adapter, timed_out tells that
\* wait_for's timer fired
NewInvocation(runner, action) ==
    [runner |-> runner, action |-> action, pc |-> "start", tries |-> 0,
     resolutions |-> 0, handler_calls |-> 0, fallback_calls |-> 0,
     raised |-> 0, timed_out |-> FALSE,
     status |-> "pending", result |-> "None"]

NoInvocation == NewInvocation("none", "unknown")

\* str(e) of the exception the adapter raises in the n-th attempt
ErrorOf(n) ==
    CASE n = 1 -> "str(e1)"
      [] n = 2 -> "str(e2)"
      [] n = 3 -> "str(e3)"
      [] OTHER -> "str(e)"

\* an exception that is never retried
after_raise_without_retry(inv, message) ==
    [inv EXCEPT !.pc = "done", !.status = "failed", !.result = message, !.raised = @ + 1]

\* an exception leaves _execute_adapter: tenacity sleeps and calls it again, or
\* after STOP_AFTER_ATTEMPT attempts re-raises it into _run_task's `except Exception`
after_raise(inv, message) ==
    IF inv.tries < STOP_AFTER_ATTEMPT
    THEN [inv EXCEPT !.pc = "backoff", !.raised = @ + 1]
    ELSE [inv EXCEPT !.pc = "done", !.status = "failed", !.result = message,
                     !.raised = @ + 1]

\* _run_task enters the semaphore, or the for loop takes the task: status Running
RunTask ==
    /\ entry = "invoke"
    /\ invocation.pc = "start"
    /\ invocation' = [invocation EXCEPT !.status = "running", !.pc = "resolving", !.tries = 1]
    /\ UNCHANGED <<entry, critic, buildVars, execVars, loopVars>>

\* one call of _execute_adapter up to its first await: the registry is asked; the
\* adapter is invoked, or the mock result is returned, or AdapterNotFoundError raised
ExecuteAdapter ==
    /\ entry = "invoke"
    /\ invocation.runner = "executor"
    /\ invocation.pc = "resolving"
    /\ LET inv == [invocation EXCEPT !.resolutions = @ + 1] IN
       invocation' =
          IF registry_get(inv.action)
          THEN [inv EXCEPT !.pc = "executing", !.handler_calls = @ + 1]
          ELSE IF inv.action \in MockActions
          THEN [inv EXCEPT !.pc = "done", !.status = "completed", !.result = "[MOCK] Result"]
          ELSE after_raise(inv, "No adapter found for action")
    /\ UNCHANGED <<entry, critic, buildVars, execVars, loopVars>>

\* adapter.execute(args) returns or raises
AdapterReturns(out) ==
    /\ entry = "invoke"
    /\ invocation.runner = "executor"
    /\ invocation.pc = "executing"
    /\ invocation' =
          IF out = "success"
          THEN [invocation EXCEPT !.pc = "done", !.status = "completed", !.result = "str(result)"]
          ELSE after_raise(invocation, ErrorOf(invocation.tries))
    /\ UNCHANGED <<entry, critic, buildVars, execVars, loopVars>>

\* tenacity's sleep ends and _execute_adapter is called again
BackoffEnds ==
    /\ entry = "invoke"
    /\ invocation.pc = "backoff"
    /\ invocation' = [invocation EXCEPT !.pc = "resolving", !.tries = @ + 1]
    /\ UNCHANGED <<entry, critic, buildVars, execVars, loopVars>>

\* a timeout that tenacity treats as one more exception of the attempt
on_timeout_retried(inv) ==
    after_raise([inv EXCEPT !.timed_out = TRUE], "Task exceeded limit.")

\* `except asyncio.TimeoutError`: wait_for has cancelled _execute_adapter with
\* its retries, the task is Failed with the timeout message
on_timeout(inv) ==
    [inv EXCEPT !.pc = "done", !.status = "failed", !.timed_out = TRUE,
                !.result = "Task exceeded limit."]

\* wait_for's timeout expires while the adapter or a sleep is awaited.  The sleeps
\* alone (2 s and 4 s) stay under task_timeout (60 s), so a sleep can be cut short
\* only after an adapter call has taken time
WaitForTimeout ==
    /\ entry = "invoke"
    /\ invocation.runner = "executor"
    /\ \/ invocation.pc = "executing"
       \/ invocation.pc = "backoff" /\ invocation.handler_calls > 0
    /\ invocation' = on_timeout(invocation)
    /\ UNCHANGED <<entry, critic, buildVars, execVars, loopVars>>

\* `handler = self.tool_registry.get(task.action, self._tool_fallback)` and the
\* call of the handler
DispatchTool ==
    /\ entry = "invoke"
    /\ invocation.runner = "orchestrator"
    /\ invocation.pc = "resolving"
    /\ invocation' =
          IF invocation.action \in ToolRegistry
          THEN [invocation EXCEPT !.pc = "executing", !.resolutions = @ + 1,
                                  !.handler_calls = @ + 1]
          ELSE [invocation EXCEPT !.pc = "executing", !.resolutions = @ + 1,
                                  !.fallback_calls = @ + 1]
    /\ UNCHANGED <<entry, critic, buildVars, execVars, loopVars>>

\* `await handler(task.args)` returns or raises (the fallback only returns)
ToolReturns(out) ==
    /\ entry = "invoke"
    /\ invocation.runner = "orchestrator"
    /\ invocation.pc = "executing"
    /\ out = "error" => invocation.action \in RaisingTools
    /\ invocation' =
          IF out = "error"
          THEN [invocation EXCEPT !.pc = "done", !.status = "failed",
                                  !.result = "Execution Error"]
          ELSE [invocation EXCEPT !.pc = "done", !.status = "completed",
                                  !.result = IF invocation.action \in ToolRegistry
                                             THEN "result"
                                             ELSE "[ NO_OP ]: Tool not found in registry."]
    /\ UNCHANGED <<entry, critic, buildVars, execVars, loopVars>>

NextInvoke ==
    \/ RunTask
    \/ ExecuteAdapter
    \/ \E out \in HandlerOutcomes : AdapterReturns(out)
    \/ BackoffEnds
    \/ WaitForTimeout
    \/ DispatchTool
    \/ \E out \in HandlerOutcomes : ToolReturns(out)

----------------------------------------------------------------------------
(* The pass decision: Critic.evaluate and the success condition of
   execute_objective, each on the same critique *)

\* the default of Critic.__init__'s threshold, in hundredths
CRITIC_DEFAULT_THRESHOLD == 75

\* the threshold a Critic is constructed with: the default, or the caller's value
CriticThresholds == {CRITIC_DEFAULT_THRESHOLD, 80}

\* Settings.CRITIC_THRESHOLD: the default, or the value of the environment
ConfiguredThresholds == {CRITIC_THRESHOLD, 80}

\* the critiques judged: scores below, at and above each threshold, or the call raises
JudgedReplies ==
    {CriticReply(FALSE, sc) : sc \in Scores \cup {76, 79, 80}} \cup {CriticReply(TRUE, 0)}

NoCritic ==
    [threshold |-> 0, configured |-> 0, reply |-> CriticReply(FALSE, 0), failed |-> FALSE,
     passed |-> "none", is_success |-> "none"]

Verdict(b) == IF b THEN "yes" ELSE "no"

\* Critic.evaluate: passed = score >= self.threshold
passed(score, threshold) == score >= threshold

\* execute_objective: is_success = not failed_tasks and
\* critic_score >= self.settings.CRITIC_THRESHOLD
success_condition(failed, score, threshold) == ~failed /\ score >= threshold

\* Critic.evaluate judges the critique
Evaluate ==
    /\ entry = "critic"
    /\ critic.passed = "none"
    /\ critic' = [critic EXCEPT
                     !.passed = Verdict(passed(critique_score(critic.reply), critic.threshold))]
    /\ UNCHANGED <<entry, invocation, buildVars, execVars, loopVars>>

\* execute_objective judges the critique of the graph it executed
SuccessCondition ==
    /\ entry = "critic"
    /\ critic.is_success = "none"
    /\ critic' = [critic EXCEPT
                     !.is_success = Verdict(success_condition(critic.failed,
                                                critique_score(critic.reply),
                                                critic.configured))]
    /\ UNCHANGED <<entry, invocation, buildVars, execVars, loopVars>>

NextCritic ==
    \/ Evaluate
    \/ SuccessCondition

----------------------------------------------------------------------------
(* Builder harness: a step list is given to one of the two builders *)

BuildOrchestrator ==
    /\ entry = "build"
    /\ builder = "none"
    /\ builder' = "orchestrator"
    /\ built' = validate_and_build_dag(steps)
    /\ UNCHANGED <<entry, critic, invocation, steps, rebuilt, execVars, loopVars>>

BuildPlanner ==
    /\ entry = "build"
    /\ builder = "none"
    /\ builder' = "planner"
    /\ built' = build_and_validate_dag(steps)
    /\ UNCHANGED <<entry, critic, invocation, steps, rebuilt, execVars, loopVars>>

NextBuild ==
    \/ BuildOrchestrator
    \/ BuildPlanner

----------------------------------------------------------------------------
(* Rebuild harness: a builder is called on a step list, the graph it returned is
   executed, and the same builder is called on the same list again *)

\* a builder that takes the dependencies out of the steps it reads
steps_after_build_consuming(ss) ==
    [i \in 1..Len(ss) |-> [ss[i] EXCEPT !.dependencies = <<>>]]

\* the caller's step list after a call of a builder: both builders only read the
\* steps (step.get) and keep nothing between calls
steps_after_build(ss) == ss

build_with(b, ss) ==
    IF b = "orchestrator" THEN validate_and_build_dag(ss) ELSE build_and_validate_dag(ss)

FirstBuild(b) ==
    /\ entry = "rebuild"
    /\ builder = "none"
    /\ builder' = b
    /\ built' = build_with(b, steps)
    /\ steps' = steps_after_build(steps)
    /\ UNCHANGED <<entry, critic, invocation, rebuilt, execVars, loopVars>>

\* the first graph is executed: a Pending task whose dependencies are Completed
\* is run, and its status and result are assigned on the task object
ExecuteBuilt(i, out) ==
    /\ entry = "rebuild"
    /\ built.ok
    /\ rebuilt = NotBuilt
    /\ i \in 1..Len(built.tasks)
    /\ built.tasks[i].status = "pending"
    /\ \A dep \in Range(built.tasks[i].dependencies) :
          Get(built.tasks, dep).status = "completed"
    /\ built' = [built EXCEPT !.tasks[i].status = status_after(out),
                              !.tasks[i].result = result_after(out)]
    /\ UNCHANGED <<entry, critic, invocation, steps, builder, rebuilt, execVars, loopVars>>

SecondBuild ==
    /\ entry = "rebuild"
    /\ builder # "none"
    /\ rebuilt = NotBuilt
    /\ rebuilt' = build_with(builder, steps)
    /\ steps' = steps_after_build(steps)
    /\ UNCHANGED <<entry, critic, invocation, builder, built, execVars, loopVars>>

NextRebuild ==
    \/ \E b \in {"orchestrator", "planner"} : FirstBuild(b)
    \/ \E i \in 1..Len(built.tasks) : \E out \in Outcomes : ExecuteBuilt(i, out)
    \/ SecondBuild

----------------------------------------------------------------------------
(* Initial states and specifications *)

BuildIdle ==
    /\ steps = <<>>
    /\ builder = "none"
    /\ built = NotBuilt
    /\ rebuilt = NotBuilt

ExecIdle ==
    /\ max_concurrent = 1
    /\ semaphore = 1
    /\ tasks = [c \in Calls |-> <<>>]
    /\ completed_ids = [c \in Calls |-> {}]
    /\ failed_ids = [c \in Calls |-> {}]
    /\ executable = [c \in Calls |-> {}]
    /\ coro = [c \in Calls |-> <<>>]
    /\ xpc = [c \in Calls |-> "idle"]
    /\ invoked = [c \in Calls |-> {}]
    /\ startedBad = [c \in Calls |-> {}]
    /\ launched = [c \in Calls |-> <<>>]
    /\ at_entry = [c \in Calls |-> [tasks |-> <<>>, calls |-> 1]]
    /\ args = [c \in Calls |-> <<>>]

LoopIdle ==
    /\ opc = "start"
    /\ current_steps = <<>>
    /\ otasks = <<>>
    /\ oargs = <<>>
    /\ attempt = 0
    /\ pending_ids = {}
    /\ ocompleted_ids = {}
    /\ iterations = 0
    /\ oexecutable = {}
    /\ progress_made = FALSE
    /\ running_id = ""
    /\ oinvoked = {}
    /\ ostartedBad = {}
    /\ critic_score = 0
    /\ outcome = NoOutcome
    /\ handed = 0
    /\ autonomy = "STANDARD"
    /\ final_output = <<>>
    /\ refine_args = NoRefineArgs
    /\ is_throttled = FALSE
    /\ calls = NoCalls
    /\ replies = NoReplies

\* a step list, not yet built
InitBuild ==
    /\ entry = "build"
    /\ \E n \in 0..MaxSteps :
          \E dl \in DepChoices(StepIds, n, MaxEdges) :
             \E il \in IdChoices(StepIds, n) :
                steps = MakeSteps(il, dl)
    /\ builder = "none"
    /\ built = NotBuilt
    /\ rebuilt = NotBuilt
    /\ ExecIdle
    /\ LoopIdle
    /\ invocation = NoInvocation
    /\ critic = NoCritic

\* a step list, about to be built twice
InitRebuild ==
    /\ entry = "rebuild"
    /\ steps \in PlanLists
    /\ builder = "none"
    /\ built = NotBuilt
    /\ rebuilt = NotBuilt
    /\ ExecIdle
    /\ LoopIdle
    /\ invocation = NoInvocation
    /\ critic = NoCritic

\* an Executor with max_concurrent slots and, for each call, a valid graph of
\* pending tasks; no call has started
InitExec ==
    /\ entry = "executor"
    /\ max_concurrent \in 1..MaxConcurrent
    /\ semaphore = max_concurrent
    /\ tasks \in {f \in [Calls -> Graphs] :
                    Len(f["call1"]) + Len(f["call2"]) <= MaxTasks}
    /\ completed_ids = [c \in Calls |-> {}]
    /\ failed_ids = [c \in Calls |-> {}]
    /\ executable = [c \in Calls |-> {}]
    /\ coro = [c \in Calls |-> [k \in Keys(tasks[c]) |-> "none"]]
    /\ xpc = [c \in Calls |-> "idle"]
    /\ invoked = [c \in Calls |-> {}]
    /\ startedBad = [c \in Calls |-> {}]
    /\ launched = [c \in Calls |-> [k \in Keys(tasks[c]) |-> 0]]
    /\ at_entry = [c \in Calls |-> [tasks |-> tasks[c], calls |-> 1]]
    /\ args = [c \in Calls |-> args_at_entry(tasks[c])]
    /\ BuildIdle
    /\ LoopIdle
    /\ invocation = NoInvocation
    /\ critic = NoCritic

\* an Executor about to be called again on a graph an earlier execution left
InitResume ==
    /\ entry = "executor"
    /\ max_concurrent \in 1..MaxConcurrent
    /\ semaphore = max_concurrent
    /\ \E g \in ResumedGraphs : tasks = [c \in Calls |-> IF c = "call1" THEN g ELSE <<>>]
    /\ completed_ids = [c \in Calls |-> {}]
    /\ failed_ids = [c \in Calls |-> {}]
    /\ executable = [c \in Calls |-> {}]
    /\ coro = [c \in Calls |-> [k \in Keys(tasks[c]) |-> "none"]]
    /\ xpc = [c \in Calls |-> "idle"]
    /\ invoked = [c \in Calls |-> {}]
    /\ startedBad = [c \in Calls |-> {}]
    /\ launched = [c \in Calls |-> [k \in Keys(tasks[c]) |-> 0]]
    /\ at_entry = [c \in Calls |-> [tasks |-> tasks[c], calls |-> 1]]
    /\ args = [c \in Calls |-> args_at_entry(tasks[c])]
    /\ BuildIdle
    /\ LoopIdle
    /\ invocation = NoInvocation
    /\ critic = NoCritic

\* execute_objective is about to be called
InitLoop ==
    /\ entry = "control"
    /\ opc = "start"
    /\ current_steps = <<>>
    /\ otasks = <<>>
    /\ oargs = <<>>
    /\ attempt = 0
    /\ pending_ids = {}
    /\ ocompleted_ids = {}
    /\ iterations = 0
    /\ oexecutable = {}
    /\ progress_made = FALSE
    /\ running_id = ""
    /\ oinvoked = {}
    /\ ostartedBad = {}
    /\ critic_score = 0
    /\ outcome = NoOutcome
    /\ handed = 0
    /\ autonomy \in {"RESTRICTED", "STANDARD"}
    /\ final_output = <<>>
    /\ refine_args = NoRefineArgs
    /\ is_throttled \in BOOLEAN
    /\ calls = NoCalls
    /\ replies = NoReplies
    /\ BuildIdle
    /\ ExecIdle
    /\ invocation = NoInvocation
    /\ critic = NoCritic

\* _execute_dag is about to be called on a valid graph of pending tasks (it is
\* only called by execute_objective, on the graphs the builder returned)
InitDag ==
    /\ entry = "dag"
    /\ opc = "execute"
    /\ otasks \in Graphs
    /\ oargs = [k \in Keys(otasks) |-> built_args]
    /\ current_steps = [i \in 1..Len(otasks) |-> Step(otasks[i].id, otasks[i].dependencies)]
    /\ attempt = 0
    /\ pending_ids = {}
    /\ ocompleted_ids = {}
    /\ iterations = 0
    /\ oexecutable = {}
    /\ progress_made = FALSE
    /\ running_id = ""
    /\ oinvoked = {}
    /\ ostartedBad = {}
    /\ critic_score = 0
    /\ outcome = NoOutcome
    /\ handed = 0
    /\ autonomy = "STANDARD"
    /\ final_output = <<>>
    /\ refine_args = NoRefineArgs
    /\ is_throttled = FALSE
    /\ calls = NoCalls
    /\ replies = NoReplies
    /\ BuildIdle
    /\ ExecIdle
    /\ invocation = NoInvocation
    /\ critic = NoCritic

\* a task is about to be run by the Executor or by the orchestrator's _execute_dag
InitInvoke ==
    /\ entry = "invoke"
    /\ \E runner \in {"executor", "orchestrator"} : \E action \in Actions :
          invocation = NewInvocation(runner, action)
    /\ BuildIdle
    /\ ExecIdle
    /\ LoopIdle
    /\ critic = NoCritic

\* a Critic has been constructed, the settings have been read, and a critique of
\* an executed graph is about to be judged
InitCritic ==
    /\ entry = "critic"
    /\ \E t \in CriticThresholds, cfg \in ConfiguredThresholds,
          r \in JudgedReplies, failed \in BOOLEAN :
          critic = [NoCritic EXCEPT !.threshold = t, !.configured = cfg,
                                    !.reply = r, !.failed = failed]
    /\ BuildIdle
    /\ ExecIdle
    /\ LoopIdle
    /\ invocation = NoInvocation

Init ==
    InitBuild \/ InitRebuild \/ InitExec \/ InitResume \/ InitLoop \/ InitDag \/ InitInvoke
        \/ InitCritic


SpecBuild == InitBuild /\ [][NextBuild]_vars

SpecRebuild == InitRebuild /\ [][NextRebuild]_vars

SpecExec == InitExec /\ [][NextExec]_vars

\* execute_dag on a resumed graph, and called again after it has returned
NextResume ==
    \/ NextExec
    \/ \E c \in Calls : ExecuteDagAgain(c)

SpecResume == InitResume /\ [][NextResume]_vars

Next == NextBuild \/ NextRebuild \/ NextResume \/ NextLoop \/ NextInvoke \/ NextCritic

Spec == Init /\ [][Next]_vars

SpecLoop == InitLoop /\ [][NextLoop]_vars

SpecDag == InitDag /\ [][NextDag]_vars

SpecInvoke == InitInvoke /\ [][NextInvoke]_vars

SpecCritic == InitCritic /\ [][NextCritic]_vars

\* execute_objective under weak fairness of its steps: the event loop keeps
\* running the coroutine, and every awaited call (planner, handler, critic) returns
SpecLoopFair == InitLoop /\ [][NextLoop]_vars /\ WF_vars(NextLoop)

\* the two executors on their own
InitExecutors == InitExec \/ InitDag

NextExecutors == NextExec \/ NextDag

SpecExecutors == InitExecutors /\ [][NextExecutors]_vars

\* the two executors under weak fairness of their steps: the event loop keeps
\* running every coroutine that can run, and every awaited handler call ends
\* (it returns, raises, or is cut by the timeout)
SpecExecutorsFair == InitExecutors /\ [][NextExecutors]_vars /\ WF_vars(NextExecutors)

\* the two executors, and the control loop that drives _execute_dag
InitRun == InitExec \/ InitDag \/ InitLoop

NextRun == NextExec \/ NextLoop

SpecRun == InitRun /\ [][NextRun]_vars

----------------------------------------------------------------------------
(* Properties *)

\* the step list a graph was built from: ids and dependencies in dict order
StepsOf(d) == [i \in 1..Len(d) |-> Step(d[i].id, d[i].dependencies)]

\* execute_dag of call c has returned
Returned(c) == xpc[c] = "done"

\* _execute_dag has returned to execute_objective
ODagReturned == opc \in {"critic", "refining", "returned"} /\ handed > 0

AllTerminal(d) == \A i \in 1..Len(d) : Terminal(d[i])

\* C1: executing a valid graph ends with every task Completed or Failed, in
\* Executor.execute_dag and in ExecutiveOrchestrator._execute_dag (both do
\* terminate; what fails is the status of the tasks on return)
C1_AllTasksTerminalOnReturn ==
    /\ \A c \in Calls : Returned(c) => AllTerminal(tasks[c])
    /\ ODagReturned => AllTerminal(otasks)

\* d[i] lists d[j] as a dependency, d[j] is Failed, and d[i] is not Failed or its
\* handler was invoked
DependentNotFailed(d, inv) ==
    \E i, j \in 1..Len(d) :
        /\ d[j].id \in Range(d[i].dependencies)
        /\ d[j].status = "failed"
        /\ (d[i].status # "failed" \/ d[i].id \in inv)

\* C2: when a graph has been executed, every task with a Failed dependency is
\* Failed and its handler was never invoked
C2_FailedDependencyFailsDependent ==
    /\ \A c \in Calls : Returned(c) => ~DependentNotFailed(tasks[c], invoked[c])
    /\ ODagReturned => ~DependentNotFailed(otasks, oinvoked)

RunningTasks ==
    UNION {{<<c, i>> : i \in {j \in 1..Len(tasks[c]) : tasks[c][j].status = "running"}} :
           c \in Calls}

WaitingTasks ==
    UNION {{<<c, k>> : k \in {x \in DOMAIN coro[c] : coro[c][x] = "waiting"}} : c \in Calls}

\* C3: at most max_concurrent tasks are Running, over all the execute_dag calls in
\* progress on the Executor
C3_AtMostMaxConcurrentRunning == Cardinality(RunningTasks) <= max_concurrent

\* both calls have a task Running, every slot is taken and a task waits for one
C3_Witness ==
    /\ entry = "executor"
    /\ Cardinality(RunningTasks) = max_concurrent
    /\ \A c \in Calls : \E p \in RunningTasks : p[1] = c
    /\ WaitingTasks # {}

\* C4: no task entered Running while one of its dependencies was not Completed,
\* in the Executor and in the orchestrator's _execute_dag
C4_DependenciesCompletedAtStart ==
    /\ \A c \in Calls : startedBad[c] = {}
    /\ ostartedBad = {}

\* a task with a dependency is Running in the orchestrator's _execute_dag
C4_Witness ==
    /\ entry \in {"control", "dag"}
    /\ running_id # ""
    /\ Get(otasks, running_id).status = "running"
    /\ Get(otasks, running_id).dependencies # <<>>

\* the graph of execute_objective is being executed by _execute_dag
Executing == opc \in {"execute", "loop", "batch"}

\* C5: every graph the control loop hands to _execute_dag was built from a step
\* list that passes validation: unique ids, every dependency names another task of
\* the graph, no cycle
C5_OnlyValidatedGraphsExecuted ==
    (entry = "control" /\ Executing) =>
        /\ StepsOf(otasks) = current_steps
        /\ ValidSteps(StepsOf(otasks))

\* the graph of a refined plan, with a dependency, is being executed
C5_Witness ==
    /\ entry = "control"
    /\ opc = "batch"
    /\ attempt >= 1
    /\ Len(otasks) = 2
    /\ \E i \in 1..Len(otasks) : otasks[i].dependencies # <<>>

\* a builder has run on `steps`
Built == entry = "build" /\ builder # "none"

\* C6: on a valid step list either builder returns a graph with exactly the input
\* ids, the input dependencies and every task Pending
C6_ValidStepsBuildPendingGraph ==
    (Built /\ ValidSteps(steps)) =>
        /\ built.ok
        /\ Len(built.tasks) = Len(steps)
        /\ Keys(built.tasks) = StepIdSet(steps)
        /\ \A i \in 1..Len(steps) :
              /\ Get(built.tasks, steps[i].id).dependencies = steps[i].dependencies
              /\ Get(built.tasks, steps[i].id).status = "pending"

\* the Planner's builder has built a valid list of three steps with dependencies
C6_Witness ==
    /\ Built
    /\ builder = "planner"
    /\ ValidSteps(steps)
    /\ Len(steps) = 3
    /\ steps[1].dependencies # <<>>
    /\ steps[3].dependencies # <<>>
    /\ built.ok

\* the step list passes the four checks that come before cycle detection
PassesEarlierChecks(ss) ==
    /\ AllIdsPresent(ss)
    /\ IdsUnique(ss)
    /\ ~HasSelfDependency(ss)
    /\ ~HasAbsentDependency(ss)

\* C7: on a step list with a cycle (that the earlier checks let through) the
\* builder fails and the error carries a path that is a cycle of the input
C7_CycleReportedWithTruePath ==
    (Built /\ PassesEarlierChecks(steps) /\ HasCycle(steps)) =>
        /\ ~built.ok
        /\ IsCyclePath(steps, built.path)

\* C8: a step with a missing or empty id makes the build fail
C8_MissingIdFailsBuild ==
    (Built /\ ~AllIdsPresent(steps)) => ~built.ok

\* C9: two steps with the same id make the build fail
C9_DuplicateIdFailsBuild ==
    (Built /\ AllIdsPresent(steps) /\ HasDuplicateId(steps)) => ~built.ok

\* C10: a step that lists its own id, or an id no step carries, as a dependency
\* makes the build fail
C10_BadDependencyFailsBuild ==
    (Built /\ (HasSelfDependency(steps) \/ HasAbsentDependency(steps))) => ~built.ok

----------------------------------------------------------------------------
(* Properties of the validation order and of the control loop *)

\* the lowest-numbered rule the list violates (0 if it violates none)
LowestViolatedRule(ss) ==
    IF ViolatedRules(ss) = {} THEN 0
    ELSE CHOOSE r \in ViolatedRules(ss) : \A q \in ViolatedRules(ss) : r <= q

\* the rule an error of the builder reports (0 if there is no error)
RuleOfError(kind) ==
    CASE kind = "missing_id" -> 1
      [] kind = "duplicate_id" -> 2
      [] kind = "self_dependency" -> 3
      [] kind = "missing_dependency" -> 4
      [] kind = "cycle" -> 5
      [] OTHER -> 0

\* C11: on a step list that violates one or more rules, the error
\* ExecutiveOrchestrator._validate_and_build_dag reports is the one of the
\* lowest-numbered violated rule
C11_LowestViolatedRuleReported ==
    (Built /\ builder = "orchestrator" /\ ViolatedRules(steps) # {}) =>
        RuleOfError(built.error) = LowestViolatedRule(steps)

NoFailedTask(d) == \A i \in 1..Len(d) : d[i].status # "failed"

CriticPassed == critic_score >= CRITIC_THRESHOLD

\* the critic has judged the attempt just executed (otasks is its graph and
\* critic_score its score) and no later attempt has begun
AttemptJudged == entry = "control" /\ calls.critic > 0 /\ opc \in {"refining", "returned"}

\* C12: execute_objective returns success only from an attempt in which the critic
\* passed and no task of the executed graph is Failed; every other attempt leads to
\* refinement or to a failed outcome
C12_SuccessOnlyWhenPassedAndNoFailure ==
    /\ (entry = "control" /\ outcome.status = "success") =>
          (AttemptJudged /\ CriticPassed /\ NoFailedTask(otasks))
    /\ (AttemptJudged /\ ~(CriticPassed /\ NoFailedTask(otasks))) =>
          (opc = "refining" \/ outcome.status = "failed")

\* a refined plan of two tasks succeeded at a later attempt
C12_Witness ==
    /\ entry = "control"
    /\ outcome.status = "success"
    /\ outcome.attempts >= 2
    /\ Len(otasks) = 2

ORunReturned == entry = "control" /\ opc = "returned"

\* at most MAX_AUTONOMY_RETRIES graphs are executed; a Run that failed although the
\* planner's last answer was valid executed exactly that many and reports as many
BoundedAttempts ==
    entry = "control" =>
        /\ handed <= MAX_AUTONOMY_RETRIES
        /\ (opc = "returned" /\ outcome.status = "failed" /\ calls.critic > 0
               /\ replies.plan.kind = "valid") =>
              (handed = MAX_AUTONOMY_RETRIES /\ outcome.attempts = MAX_AUTONOMY_RETRIES)

\* C13: one call of execute_objective executes a graph at most
\* MAX_AUTONOMY_RETRIES times and then returns; when every attempt fails and every
\* refinement is valid, exactly MAX_AUTONOMY_RETRIES attempts are executed and the
\* failed outcome says so
C13_BoundedAttemptsThenReturns == []BoundedAttempts /\ <>(opc = "returned")

\* the attempts are exhausted: three graphs executed, the last two from refinements
C13_Witness ==
    /\ ORunReturned
    /\ outcome.status = "failed"
    /\ replies.plan.kind = "valid"
    /\ handed = MAX_AUTONOMY_RETRIES
    /\ calls.refine = MAX_AUTONOMY_RETRIES - 1

\* the planner's last answer was to a refinement and is no plan: the call raised,
\* the list is empty, or the list violates a rule
RefinementBroken ==
    /\ entry = "control"
    /\ replies.plan.to = "refine"
    /\ replies.plan.kind \in {"error", "empty", "invalid"}

\* C14: after an empty or invalid refined step list the Run has returned failed,
\* no graph was executed after the last critic call, and no step of the Run
\* (execution, planner call, critic call) can follow
C14_BrokenRefinementStopsTheRun ==
    RefinementBroken =>
        /\ opc = "returned"
        /\ outcome.status = "failed"
        /\ handed = calls.critic
        /\ ~ENABLED NextLoop

\* the second refinement of a Run answered a list that violates a rule
C14_Witness ==
    /\ RefinementBroken
    /\ replies.plan.kind = "invalid"
    /\ calls.refine = 2
    /\ opc = "returned"

\* C15: every failed outcome carries a score and an attempt count; the count is the
\* number of graphs executed in the Run and the score is the critic's last
C15_FailureCarriesScoreAndAttempts ==
    (ORunReturned /\ outcome.status = "failed") =>
        /\ outcome.attempts = handed
        /\ outcome.score # -1
        /\ calls.critic > 0 => outcome.score = critic_score

\* C16: called in RESTRICTED mode with the throttle active, execute_objective
\* returns halted and has called neither planner, builder, handler nor critic
C16_ThrottledRestrictedRunHalts ==
    (entry = "control" /\ autonomy = "RESTRICTED" /\ is_throttled /\ opc # "start") =>
        /\ opc = "returned"
        /\ outcome.status = "halted"
        /\ calls = NoCalls
        /\ handed = 0
        /\ oinvoked = {}
        /\ otasks = NoGraph

C16_Witness ==
    /\ entry = "control"
    /\ autonomy = "RESTRICTED"
    /\ is_throttled
    /\ outcome.status = "halted"

\* C17: an empty initial step list (also the one of a planner call that raised)
\* fails the Run: no graph is built or executed and the critic is not called
C17_EmptyInitialPlanFails ==
    (entry = "control" /\ replies.plan.to = "plan" /\ replies.plan.kind \in {"empty", "error"}) =>
        /\ opc = "returned"
        /\ outcome.status = "failed"
        /\ calls.build = 0
        /\ otasks = NoGraph
        /\ handed = 0
        /\ oinvoked = {}
        /\ calls.critic = 0

\* the initial planner call raised and the Run has returned
C17_Witness ==
    /\ entry = "control"
    /\ replies.plan.to = "plan"
    /\ replies.plan.kind = "error"
    /\ opc = "returned"

\* the message the failed dict carries for a violation of rule r
RuleMessage(r) ==
    CASE r = 1 -> "Invalid Execution Plan: Plan step missing 'id' field"
      [] r = 2 -> "Invalid Execution Plan: Duplicate Task ID detected"
      [] r = 3 -> "Invalid Execution Plan: Self-dependency detected in task"
      [] r = 4 -> "Invalid Execution Plan: Task depends on non-existent task"
      [] r = 5 -> "Invalid Execution Plan: Cycle detected in execution plan"

\* C18: an initial step list that violates a rule fails the Run with the message
\* of a rule the list violates; no handler is invoked, no refinement requested
C18_InvalidInitialPlanFails ==
    (entry = "control" /\ replies.plan.to = "plan" /\ replies.plan.kind = "invalid") =>
        /\ opc = "returned"
        /\ outcome.status = "failed"
        /\ outcome.reason \in {RuleMessage(r) : r \in replies.plan.violated}
        /\ handed = 0
        /\ oinvoked = {}
        /\ calls.refine = 0
        /\ calls.critic = 0

\* the initial list had a duplicate id and a dependency on an absent id
C18_Witness ==
    /\ entry = "control"
    /\ replies.plan.to = "plan"
    /\ replies.plan.violated = {2, 4}
    /\ opc = "returned"

\* C19: an attempt whose critic call raised is judged with score 0.0 and does not
\* end the Run in success
C19_CriticFailureScoresZero ==
    (entry = "control" /\ replies.critic_error) =>
        /\ critic_score = 0
        /\ outcome.status # "success"

\* the registry the task's runner resolves the action in does not have it
Unregistered ==
    IF invocation.runner = "executor"
    THEN invocation.action \notin ExecutorRegistered
    ELSE invocation.action \notin ToolRegistry

InvocationDone == entry = "invoke" /\ invocation.pc = "done"

\* C20: a task whose action is not registered ends Failed with the not-found
\* message after one resolution, and no handler was invoked for it
C20_UnknownActionFailsWithoutRetry ==
    (InvocationDone /\ Unregistered) =>
        /\ invocation.status = "failed"
        /\ invocation.result = "No adapter found for action"
        /\ invocation.resolutions = 1
        /\ invocation.handler_calls = 0

\* C21: once wait_for's timer has fired for a task of the Executor, the task is
\* Failed with the timeout message and nothing more is done for it (no sleep
\* ends, no further call of _execute_adapter or of the handler), whatever
\* number of attempts was left
C21_TimeoutFailsWithoutRetry ==
    (entry = "invoke" /\ invocation.timed_out) =>
        /\ invocation.status = "failed"
        /\ invocation.result = "Task exceeded limit."
        /\ ~ENABLED NextInvoke

\* the timer fired during the first attempt, two attempts were left
C21_Witness ==
    /\ entry = "invoke"
    /\ invocation.timed_out
    /\ invocation.handler_calls = 1
    /\ invocation.tries = 1
    /\ invocation.tries < STOP_AFTER_ATTEMPT

\* a task of the Executor whose action has an adapter has ended, and no timeout
\* occurred
RegisteredDone ==
    /\ InvocationDone
    /\ invocation.runner = "executor"
    /\ invocation.action \in ExecutorRegistered
    /\ ~invocation.timed_out

\* C22: a registered handler is invoked at most STOP_AFTER_ATTEMPT times per
\* task; the task ends Completed with the result of the first invocation that
\* returned (every earlier one raised), and Failed, with the error of the last
\* invocation, exactly when STOP_AFTER_ATTEMPT invocations raised
C22_HandlerRetriedUpToThreeTimes ==
    /\ (entry = "invoke" /\ invocation.runner = "executor") =>
          invocation.handler_calls <= STOP_AFTER_ATTEMPT
    /\ RegisteredDone =>
          /\ invocation.status \in {"completed", "failed"}
          /\ invocation.status = "failed" <=> invocation.raised = STOP_AFTER_ATTEMPT
          /\ invocation.status = "completed" =>
                /\ invocation.result = "str(result)"
                /\ invocation.raised = invocation.handler_calls - 1
          /\ invocation.status = "failed" =>
                /\ invocation.result = ErrorOf(STOP_AFTER_ATTEMPT)
                /\ invocation.handler_calls = STOP_AFTER_ATTEMPT

\* the handler raised twice and returned in the third invocation
C22_Witness ==
    /\ RegisteredDone
    /\ invocation.status = "completed"
    /\ invocation.raised = 2
    /\ invocation.handler_calls = 3

\* the status changes the data model allows in one step
StatusStep(old, new) ==
    \/ old = new
    \/ <<old, new>> \in {<<"pending", "running">>, <<"running", "completed">>,
                         <<"running", "failed">>, <<"pending", "failed">>}

\* every task of the graph d keeps its place and changes status by StatusStep
StatusSteps(d, e) ==
    /\ Len(e) = Len(d)
    /\ \A i \in 1..Len(d) : e[i].id = d[i].id /\ StatusStep(d[i].status, e[i].status)

\* C23: in every step of Executor.execute_dag and of _execute_dag each task's
\* status stays or moves along Pending -> Running -> Completed | Failed or
\* Pending -> Failed: a Completed or Failed task never changes again
C23_StatusMovesForwardOnly ==
    [][/\ entry = "executor" => \A c \in Calls : StatusSteps(tasks[c], tasks'[c])
       /\ entry = "dag" => StatusSteps(otasks, otasks')]_vars

\* an execute_dag call ended with a task that ran and Failed, a dependent that was
\* failed by propagation without running, and a task that Completed
C23_Witness ==
    /\ entry = "executor"
    /\ \E c \in Calls :
          /\ xpc[c] = "done"
          /\ \E t \in Range(tasks[c]) : t.status = "failed" /\ t.id \in invoked[c]
          /\ \E t \in Range(tasks[c]) : t.status = "failed" /\ t.id \notin invoked[c]
          /\ \E t \in Range(tasks[c]) : t.status = "completed"

\* the graphs under execution: those of the Executor's calls, or the one of
\* _execute_dag
GraphsInExecution ==
    IF entry = "executor" THEN {tasks[c] : c \in Calls}
    ELSE IF entry = "dag" THEN {otasks}
    ELSE {}

\* C24: a task has a result only if it is Completed
C24_ResultOnlyWhenCompleted ==
    \A d \in GraphsInExecution : \A t \in Range(d) :
        t.result # "None" => t.status = "completed"

\* a refinement has been accepted and the next attempt is about to execute
\* (opc = "execute"), or _execute_dag has just set up its locals for it
AfterRefinement ==
    /\ entry = "control"
    /\ attempt > 0
    /\ \/ opc = "execute"
       \/ opc = "loop" /\ iterations = 0

\* C25: the graph of the attempt after a refinement is the graph of the refined
\* step list (same ids in the same order, same dependencies), every task of it
\* is Pending without result, and _execute_dag starts on it with every id
\* pending and none completed
C25_RefinedGraphIsFresh ==
    AfterRefinement =>
        /\ replies.plan.to = "refine"
        /\ StepsOf(otasks) = current_steps
        /\ \A t \in Range(otasks) : t.status = "pending" /\ t.result = "None"
        /\ opc = "loop" => pending_ids = Keys(otasks) /\ ocompleted_ids = {}

\* the refined graph has an id that the previous attempt ran to Completed
\* (ocompleted_ids and oinvoked still hold the previous call's sets until
\* _execute_dag is entered again), and another id the previous graph ran too
C25_Witness ==
    /\ entry = "control"
    /\ attempt > 0
    /\ opc = "execute"
    /\ \E k \in Keys(otasks) : k \in ocompleted_ids
    /\ \E k \in Keys(otasks) : k \in oinvoked \ ocompleted_ids

\* the direct and transitive dependencies of task k in the graph d
Ancestors(d, k) == ReachFrom(StepsOf(d), {k}, {})

HasFailedAncestor(d, k) == \E a \in Ancestors(d, k) : Get(d, a).status = "failed"

\* every task of d was started (inv holds the ids whose handler was invoked)
\* unless one of its direct or transitive dependencies is Failed
EligibleStarted(d, inv) == \A k \in Keys(d) : k \in inv \/ HasFailedAncestor(d, k)

\* C26: in every execution, by either executor, from some point on every task
\* none of whose direct or transitive dependencies is Failed has been started,
\* whatever the other tasks ended with
C26_FailureStopsOnlyDependents ==
    <>[](/\ entry = "executor" => \A c \in Calls : EligibleStarted(tasks[c], invoked[c])
         /\ entry = "dag" => EligibleStarted(otasks, oinvoked))

\* an execution has returned in which a task Failed, and a task that depends on
\* another, Completed, task was started all the same
C26_Witness ==
    \/ /\ entry = "executor"
       /\ \E c \in Calls :
             /\ xpc[c] = "done"
             /\ \E t \in Range(tasks[c]) : t.status = "failed" /\ t.id \in invoked[c]
             /\ \E t \in Range(tasks[c]) :
                   /\ t.dependencies # <<>>
                   /\ t.id \in invoked[c]
                   /\ ~HasFailedAncestor(tasks[c], t.id)
    \/ /\ entry = "dag"
       /\ ODagReturned
       /\ \E t \in Range(otasks) : t.status = "failed"
       /\ \E t \in Range(otasks) :
             /\ t.dependencies # <<>>
             /\ t.id \in oinvoked
             /\ ~HasFailedAncestor(otasks, t.id)

\* execute_objective has accepted the objective: the affective gate is passed
Accepted == entry = "control" /\ opc # "start" /\ outcome.status # "halted"

\* C27: an accepted objective has a Run; it is Active while tasks execute,
\* Completed exactly when success is returned (critic passed, no failed task)
\* and Failed when failure is returned
C27_RunFollowsLifecycle ==
    Accepted =>
        \E run \in runs :
            /\ run.status \in {"queued", "active", "completed", "failed"}
            /\ opc \in {"loop", "batch"} => run.status = "active"
            /\ run.status = "completed" <=> outcome.status = "success"
            /\ outcome.status = "failed" => run.status = "failed"

\* the graphs d and e have the same ids and, for every id, the same action and
\* the same dependencies
SameStructure(d, e) ==
    /\ Len(d) = Len(e)
    /\ Keys(d) = Keys(e)
    /\ \A k \in Keys(d) :
          /\ Get(d, k).action = Get(e, k).action
          /\ Get(d, k).dependencies = Get(e, k).dependencies

C29_WavesStrictlyOrdered ==
    entry = "executor" =>
        \A c \in Calls : \A i, j \in Keys(tasks[c]) :
            (/\ Get(tasks[c], i).status = "running"
             /\ 0 < launched[c][j]
             /\ launched[c][j] < launched[c][i]) => Terminal(Get(tasks[c], j))

\* a task of the second wave is Running after a first wave of two tasks, one
\* Completed and one Failed
C29_Witness ==
    /\ entry = "executor"
    /\ \E c \in Calls : \E i, j, k \in Keys(tasks[c]) :
          /\ launched[c][i] = 2
          /\ Get(tasks[c], i).status = "running"
          /\ j # k
          /\ launched[c][j] = 1
          /\ launched[c][k] = 1
          /\ Get(tasks[c], j).status = "completed"
          /\ Get(tasks[c], k).status = "failed"

\* the task t of call c was Failed already when execute_dag was called
FailedAtEntry(c, t) == Get(at_entry[c].tasks, t.id).status = "failed"

\* C30: execute_dag's failed set holds the tasks that were Failed at entry, and
\* when the call returns every task that depends on one of them is Failed and
\* was not invoked
C30_ResumeSeedsFailedSet ==
    entry = "executor" =>
        \A c \in Calls :
            /\ xpc[c] # "idle" =>
                  \A t \in Range(tasks[c]) : FailedAtEntry(c, t) => t.id \in failed_ids[c]
            /\ Returned(c) =>
                  \A a, b \in Range(tasks[c]) :
                      (b.id \in Range(a.dependencies) /\ FailedAtEntry(c, b)) =>
                          a.status = "failed" /\ a.id \notin invoked[c]

\* C31: a task that was Completed or Failed when execute_dag was called is not
\* started by that call and keeps its status and result; a further call on a
\* dict that execute_dag has returned invokes no handler and changes no task
C31_ResumeIsIdempotent ==
    entry = "executor" =>
        \A c \in Calls :
            /\ \A i \in 1..Len(tasks[c]) :
                  Terminal(at_entry[c].tasks[i]) =>
                      /\ tasks[c][i] = at_entry[c].tasks[i]
                      /\ tasks[c][i].id \notin invoked[c]
            /\ at_entry[c].calls > 1 =>
                  /\ tasks[c] = at_entry[c].tasks
                  /\ invoked[c] = {}

\* a second call has returned on a dict whose first call found a task terminal,
\* ran another one, and left a Completed and a Failed task
C31_Witness ==
    /\ entry = "executor"
    /\ \E c \in Calls :
          /\ at_entry[c].calls = 2
          /\ xpc[c] = "done"
          /\ \E t \in Range(tasks[c]) : t.status = "completed"
          /\ \E t \in Range(tasks[c]) : t.status = "failed"
          /\ \E t \in Range(tasks[c]) : t.status = "pending"

\* the args a hold, under the key, exactly the dependencies of task k of the dict d,
\* each with the result it has
ExactContext(a, key, d, k) ==
    /\ key \in DOMAIN a
    /\ DOMAIN a[key] = Range(Get(d, k).dependencies)
    /\ \A dep \in DOMAIN a[key] :
          /\ Get(d, dep).status = "completed"
          /\ a[key][dep] = Get(d, dep).result

\* the ids whose handler the current _execute_dag has invoked (oinvoked is reset
\* when _execute_dag is entered)
InvokedInThisGraph == IF opc = "execute" THEN {} ELSE oinvoked

\* C32: the args of a task whose handler has been invoked hold, under
\* "dependency_output", exactly the task's dependency ids, each with the result
\* the dependency completed with (Executor and orchestrator's _execute_dag)
C32_DependencyOutputIsExact ==
    /\ entry = "executor" =>
           \A c \in Calls : \A k \in invoked[c] :
               ExactContext(args[c][k], "dependency_output", tasks[c], k)
    /\ entry \in {"control", "dag"} =>
           \A k \in InvokedInThisGraph :
               ExactContext(oargs[k], "dependency_output", otasks, k)

\* C33: Critic.evaluate passes, and execute_objective (when no task Failed)
\* succeeds, exactly when the score is at least the configured threshold: a score
\* equal to it passes, a score below it does not, and both decide by that value
C33_PassIsAtLeastThreshold ==
    entry = "critic" =>
        LET score == critique_score(critic.reply) IN
        /\ critic.passed # "none" =>
               (critic.passed = "yes" <=> score >= critic.configured)
        /\ critic.is_success # "none" /\ ~critic.failed =>
               (critic.is_success = "yes" <=> score >= critic.configured)

\* the largest number of a non-empty set of naturals
Largest(S) == CHOOSE n \in S : \A m \in S : m <= n

\* the wave of task k as the graph and the outcomes of its dependencies fix it:
\* none (0) if a dependency did not complete, the first wave without
\* dependencies, else the wave after the last wave of its dependencies
RECURSIVE WaveOf(_, _)
WaveOf(d, k) ==
    LET deps == Range(Get(d, k).dependencies) IN
    IF \E dep \in deps : Get(d, dep).status # "completed" THEN 0
    ELSE IF deps = {} THEN 1
    ELSE 1 + Largest({WaveOf(d, dep) : dep \in deps})

\* C34: the wave that launches a task of Executor.execute_dag is a function of the
\* graph and of the outcomes of the tasks alone (so two executions with the same
\* graph and outcomes launch the same set in every wave, whatever the completion
\* order and max_concurrent): a launched task is launched in WaveOf, and when the
\* call returns every task was launched in WaveOf or not at all
C34_WavesAreDetermined ==
    entry = "executor" =>
        \A c \in Calls : \A k \in Keys(tasks[c]) :
            (launched[c][k] > 0 \/ xpc[c] = "done") =>
                launched[c][k] = WaveOf(tasks[c], k)

\* an execute_dag call under max_concurrent = 1 has returned after a first wave of
\* two tasks and a second wave of one
C34_Witness ==
    /\ entry = "executor"
    /\ max_concurrent = 1
    /\ \E c \in Calls : \E i, j, k \in Keys(tasks[c]) :
          /\ xpc[c] = "done"
          /\ i # j
          /\ launched[c][i] = 1
          /\ launched[c][j] = 1
          /\ launched[c][k] = 2

\* the graph is the two-step plan a, b in which b depends on a
IsChainAB(d) ==
    /\ Len(d) = 2
    /\ d[1].id = "a" /\ d[1].dependencies = <<>>
    /\ d[2].id = "b" /\ d[2].dependencies = <<"a">>

\* C35: when the critic has passed an attempt in which no task is Failed (the
\* first such attempt, number k = handed), execute_objective has returned success
\* with attempts = k, the planner was called once, the refiner k - 1 times, the
\* executor and the critic k times, and no further step is taken; a two-step
\* plan a, b (b depends on a) whose first attempt passes that way (no handler
\* raised) ends with both tasks Completed and attempts = 1
C35_SuccessAtFirstPassingAttempt ==
    (AttemptJudged /\ CriticPassed /\ NoFailedTask(otasks)) =>
        /\ opc = "returned"
        /\ outcome.status = "success"
        /\ outcome.attempts = handed
        /\ handed \in 1..MAX_AUTONOMY_RETRIES
        /\ calls.plan = 1
        /\ calls.refine = handed - 1
        /\ calls.critic = handed
        /\ ~ENABLED NextLoop
        /\ (IsChainAB(otasks) /\ handed = 1) =>
               /\ \A i \in 1..Len(otasks) : otasks[i].status = "completed"
               /\ outcome.attempts = 1

\* the plan a, b succeeded at the second attempt, after a first attempt that the
\* critic did not pass
C35_Witness ==
    /\ entry = "control"
    /\ outcome.status = "success"
    /\ outcome.attempts = 2
    /\ IsChainAB(otasks)
    /\ \A i \in 1..Len(otasks) : otasks[i].status = "completed"

\* the task ids that have an entry in the text of a result summary
SummaryIds(text) == {text[i][1] : i \in 1..Len(text)}

\* C36: when execute_objective has returned success, every task of the graph of
\* the final attempt is Completed and the result summary it returns has an entry
\* for every task id of that graph, holding the task's result
C36_SuccessMeansAllCompleted ==
    (entry = "control" /\ outcome.status = "success") =>
        /\ \A i \in 1..Len(otasks) : otasks[i].status = "completed"
        /\ SummaryIds(final_output) = Keys(otasks)
        /\ \A i \in 1..Len(final_output) :
              final_output[i][3] = Get(otasks, final_output[i][1]).result

\* success was returned at the second attempt for a graph of two tasks, the second
\* depending on the first, after a first attempt on another list of ids
C36_Witness ==
    /\ entry = "control"
    /\ outcome.status = "success"
    /\ handed = 2
    /\ Len(otasks) = 2
    /\ otasks[2].dependencies = <<otasks[1].id>>
    /\ replies.plan.to = "refine"

\* C37: in one execution of a graph a task is launched in at most one wave: a
\* wave of execute_dag launches only tasks that are Pending and that no earlier
\* wave launched, a task enters Running (its handler is invoked) only if it was
\* not invoked before, and _execute_dag starts a task only if it is Pending and
\* was not started before
C37_LaunchedAtMostOnce ==
    [][/\ entry = "executor" =>
             \A c \in Calls : \A k \in Keys(tasks[c]) :
                 /\ launched'[c][k] # launched[c][k] =>
                        /\ launched[c][k] = 0
                        /\ Get(tasks[c], k).status = "pending"
                 /\ (Get(tasks'[c], k).status = "running"
                        /\ Get(tasks[c], k).status # "running") =>
                        /\ k \notin invoked[c]
                        /\ launched[c][k] = launched'[c][k]
       /\ (entry = "dag" /\ running_id' # "" /\ running_id' # running_id) =>
             /\ running_id' \notin oinvoked
             /\ Get(otasks, running_id').status = "pending"]_vars

\* _execute_dag has returned after three iterations in which it started each of
\* three tasks
C37_Witness ==
    /\ entry = "dag"
    /\ ODagReturned
    /\ Len(otasks) = 3
    /\ iterations = 3
    /\ oinvoked = Keys(otasks)

\* the call c of execute_dag is at a wave boundary: a turn of the while loop has
\* just sorted the results of the last wave and scanned the tasks, and either the
\* loop is left or no coroutine of the new wave has run yet
AtWaveBoundary(c) ==
    \/ xpc[c] = "done"
    \/ xpc[c] = "wave" /\ \A k \in executable[c] : coro[c][k] = "waiting"

StatusIds(d, status) == {d[i].id : i \in {j \in 1..Len(d) : d[j].status = status}}

\* C38: at every wave boundary of Executor.execute_dag, completed_ids is the set
\* of the Completed tasks, failed_ids is the set of the Failed tasks, and the two
\* sets are disjoint
C38_SetsMatchStatuses ==
    entry = "executor" =>
        \A c \in Calls :
            AtWaveBoundary(c) =>
                /\ completed_ids[c] = StatusIds(tasks[c], "completed")
                /\ failed_ids[c] \subseteq StatusIds(tasks[c], "failed")
                /\ StatusIds(tasks[c], "failed") \subseteq failed_ids[c]
                /\ completed_ids[c] \cap failed_ids[c] = {}

\* a refine_plan call is awaited
RefinementRequested == entry = "control" /\ opc = "refining"

\* refine_plan calls made so far in this Run, the awaited one included
RefinementsRequested == calls.refine + (IF opc = "refining" THEN 1 ELSE 0)

\* C39: refine_plan is called at most MAX_AUTONOMY_RETRIES - 1 times in a Run;
\* while a call is awaited, the critic has judged the attempt just executed, that
\* attempt did not succeed, it was not the final attempt, no task is Running, and
\* the failed ids handed to the call are exactly the ids of the Failed tasks of
\* the graph just executed
C39_RefinementOnlyBetweenAttempts ==
    entry = "control" =>
        /\ RefinementsRequested <= MAX_AUTONOMY_RETRIES - 1
        /\ RefinementRequested =>
               /\ calls.critic = handed
               /\ handed = attempt + 1
               /\ ~(CriticPassed /\ NoFailedTask(otasks))
               /\ handed < MAX_AUTONOMY_RETRIES
               /\ running_id = ""
               /\ \A i \in 1..Len(otasks) : otasks[i].status # "running"
               /\ Range(refine_args.failed_tasks) = StatusIds(otasks, "failed")
               /\ Len(refine_args.failed_tasks) = Cardinality(StatusIds(otasks, "failed"))
               /\ outcome = NoOutcome

\* the second refinement of a Run is awaited, for a graph with one Failed task and
\* one task left Pending behind it
C39_Witness ==
    /\ RefinementRequested
    /\ calls.refine = MAX_AUTONOMY_RETRIES - 2
    /\ Len(refine_args.failed_tasks) = 1
    /\ \E i \in 1..Len(otasks) : otasks[i].status = "pending"

----------------------------------------------------------------------------
(* Supporting facts: which of the two implementations a failed statement fails in *)

\* on a resumed graph the completed set is seeded, and a task with a dependency
\* that was Failed at entry is never invoked: it stays as it was (Pending, on a
\* first call), unless another dependency of it fails in this call
ResumeLeavesDependentsPending ==
    entry = "executor" =>
        \A c \in Calls :
            /\ xpc[c] # "idle" =>
                  \A t \in Range(tasks[c]) :
                      (t.status = "completed" /\ t.id \notin invoked[c]) =>
                          t.id \in completed_ids[c]
            /\ \A a, b \in Range(tasks[c]) :
                  (b.id \in Range(a.dependencies) /\ FailedAtEntry(c, b)) =>
                      /\ a.id \notin invoked[c]
                      /\ \/ a = Get(at_entry[c].tasks, a.id)
                         \/ /\ a.status = "failed"
                            /\ \E x \in Range(tasks[c]) :
                                  /\ x.id \in Range(a.dependencies)
                                  /\ x.status = "failed"
                                  /\ ~FailedAtEntry(c, x)

\* Pending and Running tasks carry no result, and every Failed task carries one
\* (the error text is stored in `result`)
FailedTasksCarryTheError ==
    \A d \in GraphsInExecution : \A t \in Range(d) :
        /\ t.status \in {"pending", "running"} => t.result = "None"
        /\ t.status = "failed" => t.result # "None"

\* the orchestrator's builder rejects every list that is not valid, and the path
\* of its cycle error is a cycle of the input
OrchestratorBuilderValidates ==
    (Built /\ builder = "orchestrator") =>
        /\ built.ok <=> ValidSteps(steps)
        /\ built.error = "cycle" => IsCyclePath(steps, built.path)

\* the Planner's builder fails on every cycle, and on every bad dependency of a
\* list whose ids are present and unique
PlannerBuilderValidatesWellFormedIds ==
    (Built /\ builder = "planner" /\ AllIdsPresent(steps) /\ IdsUnique(steps)) =>
        built.ok <=> ValidSteps(steps)

\* dict order in which every dependency comes before its dependents
TopologicalOrder(d) ==
    \A i \in 1..Len(d) : \A dep \in Range(d[i].dependencies) : IndexOf(d, dep) < i

\* Executor.execute_dag leaves no task Pending when the dict is in topological order
ExecutorTerminalInTopologicalOrder ==
    \A c \in Calls : (Returned(c) /\ TopologicalOrder(tasks[c])) => AllTerminal(tasks[c])

\* in neither executor is the handler of a task with a Failed dependency invoked
DependentOfFailedNeverInvoked ==
    /\ \A c \in Calls : \A i, j \in 1..Len(tasks[c]) :
          (tasks[c][j].id \in Range(tasks[c][i].dependencies) /\ tasks[c][j].status = "failed")
              => tasks[c][i].id \notin invoked[c]
    /\ \A i, j \in 1..Len(otasks) :
          (otasks[j].id \in Range(otasks[i].dependencies) /\ otasks[j].status = "failed")
              => otasks[i].id \notin oinvoked

\* a failed outcome returned after a critic call reports the executed attempts
\* only when they are MAX_AUTONOMY_RETRIES: it fails after a broken refinement
FailedOutcomeCountsAttemptsWhenExhausted ==
    (ORunReturned /\ outcome.status = "failed" /\ calls.critic > 0
        /\ replies.plan.kind = "valid") => outcome.attempts = handed

\* with CRITIC_THRESHOLD at its default, an attempt whose critic call raised does
\* not end the Run in success (the fallback score 50 is below 75)
CriticFailureFailsAtDefaultThreshold ==
    (entry = "control" /\ replies.critic_error) =>
        (critic_score = 50 /\ outcome.status # "success")

\* in the Executor an action with neither adapter nor mock result ends Failed with
\* the not-found message, after STOP_AFTER_ATTEMPT resolutions and no adapter call
ExecutorUnknownActionResolvesEveryAttempt ==
    (InvocationDone /\ invocation.runner = "executor"
        /\ invocation.action \notin (ExecutorRegistered \cup MockActions)) =>
        /\ invocation.status = "failed"
        /\ invocation.result = "No adapter found for action"
        /\ invocation.resolutions = STOP_AFTER_ATTEMPT
        /\ invocation.handler_calls = 0

\* in the orchestrator an action that is not in tool_registry ends Completed with
\* the fallback's result
OrchestratorUnknownActionCompletes ==
    (InvocationDone /\ invocation.runner = "orchestrator" /\ Unregistered) =>
        /\ invocation.status = "completed"
        /\ invocation.fallback_calls = 1
        /\ invocation.handler_calls = 0

\* neither executor stops before it has returned
ExecutorsMakeProgress ==
    /\ (entry = "executor" /\ \E c \in Calls : ~Returned(c)) => ENABLED NextExec
    /\ (entry = "dag" /\ opc # "critic") => ENABLED NextDag

\* C32 holds in the Executor: _run_task stores the context under
\* "dependency_output" and every dependency of a launched task is Completed
ExecutorContextIsExact ==
    entry = "executor" =>
        \A c \in Calls : \A k \in invoked[c] :
            ExactContext(args[c][k], "dependency_output", tasks[c], k)

\* in _execute_dag the same mapping is stored under "dependency_data", and the
\* args never have the key "dependency_output"
OrchestratorContextIsUnderDependencyData ==
    entry \in {"control", "dag"} =>
        /\ \A k \in InvokedInThisGraph :
              ExactContext(oargs[k], "dependency_data", otasks, k)
        /\ \A k \in DOMAIN oargs : "dependency_output" \notin DOMAIN oargs[k]

\* a task with a dependency has been invoked by _run_task
ExecutorContextWitness ==
    /\ entry = "executor"
    /\ \E c \in Calls : \E k \in invoked[c] : Get(tasks[c], k).dependencies # <<>>

\* C33 holds for each decision against its own threshold: Critic.evaluate passes
\* exactly from the threshold it was constructed with, execute_objective succeeds
\* exactly from Settings.CRITIC_THRESHOLD when no task is Failed
EachDecisionIsAtLeastItsThreshold ==
    entry = "critic" =>
        LET score == critique_score(critic.reply) IN
        /\ critic.passed # "none" =>
               (critic.passed = "yes" <=> score >= critic.threshold)
        /\ critic.is_success # "none" =>
               (critic.is_success = "yes" <=> ~critic.failed /\ score >= critic.configured)

\* the two decisions agree whenever the two thresholds are equal, as they are by
\* default
DecisionsAgreeOnEqualThresholds ==
    entry = "critic" /\ critic.threshold = critic.configured /\ ~critic.failed
        /\ critic.passed # "none" /\ critic.is_success # "none" =>
            critic.passed = critic.is_success

\* a score equal to both thresholds has been judged by both
BoundaryScoreJudged ==
    /\ entry = "critic"
    /\ critic.threshold = critic.configured
    /\ critique_score(critic.reply) = critic.threshold
    /\ critic.passed = "yes"
    /\ critic.is_success = "yes"

\* the plan a, b succeeded at the first attempt
ChainSucceedsAtOnce ==
    /\ entry = "control"
    /\ outcome.status = "success"
    /\ outcome.attempts = 1
    /\ IsChainAB(otasks)

\* C38 holds except for the tasks that were Failed when execute_dag was called:
\* completed_ids is the set of the Completed tasks, failed_ids holds only Failed
\* tasks and every task that Failed during the call, and the sets are disjoint
SetsMatchStatusesOfThisCall ==
    entry = "executor" =>
        \A c \in Calls :
            AtWaveBoundary(c) =>
                /\ completed_ids[c] = StatusIds(tasks[c], "completed")
                /\ failed_ids[c] \subseteq StatusIds(tasks[c], "failed")
                /\ StatusIds(tasks[c], "failed") \ StatusIds(at_entry[c].tasks, "failed")
                       \subseteq failed_ids[c]
                /\ completed_ids[c] \cap failed_ids[c] = {}

\* a second wave is about to run after a first wave with a Completed and a Failed
\* task
SecondWaveBoundary ==
    /\ entry = "executor"
    /\ \E c \in Calls :
          /\ xpc[c] = "wave"
          /\ executable[c] # {}
          /\ \A k \in executable[c] : coro[c][k] = "waiting" /\ launched[c][k] = 2
          /\ completed_ids[c] # {}
          /\ failed_ids[c] # {}

====
